---- MODULE Spec2Model ----
(***************************************************************************)
(* ScreenCapturing-Pro: the editor's timeline model (segments; split,      *)
(* trim, delete, playback clamp, export fast path) and the capture session *)
(* controller (useScreenRecorder).                                         *)
(*                                                                         *)
(* Times are integers counted in units of 0.05 s, so the 0.1 s minimum     *)
(* width of Timeline.tsx is 2 units and the 0.5 s tolerance of the export  *)
(* fast path is 10 units.                                                  *)
(***************************************************************************)
EXTENDS Integers, Sequences, FiniteSets, TLC

\* ---------------------------------------------------------------- bounds
\* Longest source duration considered, in units of 0.05 s.
MaxDuration == 2
\* Number of splits considered in one editing session.
MaxSplits == 1
\* Longest source considered for drags across another segment.
MaxTrimDuration == 3
\* Most cuts in a run of the editor on the longer source.
MaxCuts == 2

\* Longest source considered for the frames of a GIF, in units of 0.05 s.
MaxGifDuration == 6

\* Number of capture requests made through handleStartCapture.
MaxRequests == 2
\* Number of startRecording calls that get past the re-entry guard.
MaxSessions == 2
\* Number of non-empty buffers an encoder run collects in chunksRef.
MaxData == 2

\* Largest side of a source frame, in pixels.
MaxSide == 4
\* Largest zoom factor.
MaxZoom == 3

\* ------------------------------------------------------ program constants
\* Timeline.tsx:64,67 : the 0.1 s minimum width used by the drag clamps.
MinWidth == 2
\* Timeline.tsx:33 : safeDuration falls back to 1 second.
FallbackDuration == 20
\* RecordingLibrary.tsx:353 : Math.abs(end - duration) < 0.5.
CleanTolerance == 10
\* RecordingLibrary.tsx:382-383 : the frame size assumed when the video
\* element reports none.
DefaultWidth == 1920
DefaultHeight == 1080
\* videoProcessor.ts:188-189 : GIF frames are grabbed every 1 / 10 s.
FrameInterval == 2
\* videoProcessor.ts:82-83 : the output canvas when no targetResolution is
\* given.
OutputWidth == 1920
OutputHeight == 1080

VARIABLES
  \* ---- Editor (RecordingLibrary.tsx, the Editor component)
  segments,      \* currentState.segments : sequence of [id, start, end]
  duration,      \* duration state (0 until loadedmetadata)
  currentTime,   \* currentTime state
  videoTime,     \* videoRef.current.currentTime
  clock,         \* Date.now() as last read by handleSplit
  drag,          \* the document-level mousemove listener of onHandleDrag
  params,        \* the non-segment fields of EditorState
  exportOut,     \* what handleExport handed on, if it was the last handler
  last,          \* the handler that ran last, and its outcome
  \* ---- useScreenRecorder (hooks/useScreenRecorder.ts, second definition)
  rs,            \* the hook's state and refs, and the sessions (see below)
  \* ---- export (handleExport's layout, processVideo)
  layout,        \* the layout handleExport passes to processVideo
  rn,            \* one call of processVideo: its locals, elements, observers
  twin           \* the call of the other processVideo with the same options

edVars == <<segments, duration, currentTime, videoTime, clock, drag, params,
            exportOut, last>>

recVars == <<rs>>

renVars == <<layout, rn, twin>>

vars == <<edVars, recVars, renVars>>

Max2(a, b) == IF a >= b THEN a ELSE b
Min2(a, b) == IF a <= b THEN a ELSE b

NoDrag == [active |-> FALSE]

\* No export has run since the last edit.
NoExport == [format |-> "none", location |-> "none", processVideo |-> FALSE,
             blob |-> "none"]

\* INITIAL_STATE. A field the record lacks reads as "undefined" (see Field).
INITIAL_STATE ==
  [videoVolume |-> 100, musicVolume |-> 50, playbackSpeed |-> 100,
   zoom |-> 100, panX |-> 0, panY |-> 0,
   addedAudioBlob |-> "null", addedAudioUrl |-> "null"]

\* currentState.<f> : a JavaScript property read.
Field(st, f) == IF f \in DOMAIN st THEN st[f] ELSE "undefined"

\* JavaScript truthiness of the values the model uses.
Truthy(v) == v \notin {"undefined", "null", 0, FALSE}

InitEditor ==
  /\ segments = <<>>
  /\ duration = 0
  /\ currentTime = 0
  /\ videoTime = 0
  /\ clock = 1
  /\ drag = NoDrag
  /\ params = INITIAL_STATE
  /\ exportOut = NoExport
  /\ last = "init"

\* ------------------------------------------------------------- helpers
Seg(i, s, e) == [id |-> i, start |-> s, end |-> e]

Ids(segs) == {segs[i].id : i \in DOMAIN segs}

\* Array.prototype.findIndex: the first index satisfying the test, 0 for -1.
FindIndex(segs, Test(_)) ==
  IF \E i \in DOMAIN segs : Test(segs[i])
  THEN CHOOSE i \in DOMAIN segs :
         Test(segs[i]) /\ \A j \in 1..(i - 1) : ~Test(segs[j])
  ELSE 0

\* segs.filter(s => s.id !== id)
RECURSIVE FilterOutId(_, _)
FilterOutId(segs, id) ==
  IF segs = <<>> THEN <<>>
  ELSE (IF Head(segs).id # id THEN <<Head(segs)>> ELSE <<>>)
         \o FilterOutId(Tail(segs), id)

\* Insert x into a list sorted by start, after every element with start <= x's.
RECURSIVE InsertByStart(_, _)
InsertByStart(x, sorted) ==
  IF sorted = <<>> THEN <<x>>
  ELSE IF Head(sorted).start <= x.start
       THEN <<Head(sorted)>> \o InsertByStart(x, Tail(sorted))
       ELSE <<x>> \o sorted

\* Array.prototype.sort((a, b) => a.start - b.start): stable, in place.
RECURSIVE SortByStart(_)
SortByStart(segs) ==
  IF segs = <<>> THEN <<>>
  ELSE InsertByStart(segs[Len(segs)], SortByStart(SubSeq(segs, 1, Len(segs) - 1)))

SafeDuration(d) == IF d <= 0 THEN FallbackDuration ELSE d

\* ------------------------------------------------------------- actions
\* handleLoadedMetadata: the video element reports its duration d.
HandleLoadedMetadata(d) ==
  /\ duration = 0
  /\ d > 0
  /\ duration' = d
  /\ segments' = IF Len(segments) = 0 THEN <<Seg(1, 0, d)>> ELSE segments
  /\ last' = "loadedmetadata"
  /\ UNCHANGED <<currentTime, videoTime, clock, drag, params>>
  /\ exportOut' = NoExport
  /\ UNCHANGED <<recVars, renVars>>

\* handleSeek(time), from handleTimelineClick: time clamped to [0, safeDuration].
HandleSeek(t) ==
  /\ duration > 0
  /\ ~drag.active
  /\ LET time == Max2(0, Min2(SafeDuration(duration), t))
     IN /\ videoTime' = time
        /\ currentTime' = time
  /\ last' = "seek"
  /\ UNCHANGED <<segments, duration, clock, drag, params>>
  /\ exportOut' = NoExport
  /\ UNCHANGED <<recVars, renVars>>

\* handleTimeUpdate's gap branch without the wrap to the first segment.
NextSegmentStartNoWrap(sorted, t) ==
  LET After(s) == s.start > t
      nxt == FindIndex(sorted, After)
  IN IF nxt # 0 THEN sorted[nxt].start ELSE t

\* handleTimeUpdate's gap branch: the time the video element is sent to when
\* t is in no segment of the sorted, non-empty array.
NextSegmentStart(sorted, t) ==
  LET After(s) == s.start > t
      nxt == FindIndex(sorted, After)
  IN IF nxt # 0 THEN sorted[nxt].start ELSE sorted[1].start

\* handleTimeUpdate: the video element reports that playback is at time t.
HandleTimeUpdate(t) ==
  /\ duration > 0
  /\ LET sorted == SortByStart(segments)
         InSeg(s) == t >= s.start /\ t < s.end
         After(s) == s.start > t
         idx == FindIndex(sorted, InSeg)
         nxt == FindIndex(sorted, After)
     IN /\ currentTime' = t
        /\ segments' = sorted
        /\ drag' = IF drag.active /\ drag.alias
                   THEN [drag EXCEPT !.segs = sorted] ELSE drag
        /\ IF Len(sorted) = 0 THEN videoTime' = t /\ last' = "timeupdate"
           ELSE IF idx # 0 THEN videoTime' = t /\ last' = "timeupdate"
           ELSE /\ videoTime' = NextSegmentStart(sorted, t)
                /\ last' = IF nxt # 0 THEN "timeupdate_next"
                                      ELSE "timeupdate_first"
  /\ UNCHANGED <<duration, clock, params>>
  /\ exportOut' = NoExport
  /\ UNCHANGED <<recVars, renVars>>

\* handleSplit with the test time >= seg.start in place of time > seg.start.
SplitSegmentsInclusive(segs, time, newId) ==
  LET Inside(s) == time >= s.start /\ time < s.end
      index == FindIndex(segs, Inside)
  IN IF index = 0 THEN segs
     ELSE SubSeq(segs, 1, index - 1)
            \o <<[segs[index] EXCEPT !.end = time],
                 Seg(newId, time, segs[index].end)>>
            \o SubSeq(segs, index + 1, Len(segs))

\* handleSplit with the second half pushed to the end of the array instead of
\* spliced in behind the first.
SplitSegmentsPushed(segs, time, newId) ==
  LET Inside(s) == time > s.start /\ time < s.end
      index == FindIndex(segs, Inside)
  IN IF index = 0 THEN segs
     ELSE SubSeq(segs, 1, index - 1)
            \o <<[segs[index] EXCEPT !.end = time]>>
            \o SubSeq(segs, index + 1, Len(segs))
            \o <<Seg(newId, time, segs[index].end)>>

\* The array handleSplit produces for the playhead at time, with id newId for
\* the second half; the input array when time is inside no segment.
SplitSegments(segs, time, newId) ==
  LET Inside(s) == time > s.start /\ time < s.end
      index == FindIndex(segs, Inside)
  IN IF index = 0 THEN segs
     ELSE SubSeq(segs, 1, index - 1)
            \o <<[segs[index] EXCEPT !.end = time],
                 Seg(newId, time, segs[index].end)>>
            \o SubSeq(segs, index + 1, Len(segs))

\* Date.now() read in the millisecond of the previous split.
SameClock == clock

\* Date.now() at a split: wall-clock time has passed since the previous click.
NextClock == clock + 1

\* handleSplit: cut at currentTime.  Date.now() is read only when a segment
\* is cut.  At most limit cuts are made in a run.
HandleSplitWithin(limit) ==
  /\ duration > 0
  /\ ~drag.active
  /\ LET newSegments == SplitSegments(segments, currentTime, NextClock)
     IN IF newSegments # segments
        THEN /\ clock <= limit
             /\ segments' = newSegments
             /\ clock' = NextClock
             /\ last' = "split"
        ELSE /\ UNCHANGED <<segments, clock>>
             /\ last' = "split_noop"
  /\ UNCHANGED <<duration, currentTime, videoTime, drag, params>>
  /\ exportOut' = NoExport
  /\ UNCHANGED <<recVars, renVars>>

\* handleSplit with at most MaxSplits cuts in a run.
HandleSplit == HandleSplitWithin(MaxSplits)

\* handleDeleteSegment without its length guard.
DeleteSegmentsUnguarded(segs, id) == FilterOutId(segs, id)

\* handleDeleteSegment: the array it stores.
DeleteSegments(segs, id) ==
  IF Len(segs) <= 1 THEN segs ELSE FilterOutId(segs, id)

\* handleDeleteSegment(id)
HandleDeleteSegment(id) ==
  /\ id \in Ids(segments)
  /\ ~drag.active
  /\ segments' = DeleteSegments(segments, id)
  /\ last' = IF Len(segments) <= 1 THEN "delete_noop" ELSE "delete"
  /\ UNCHANGED <<duration, currentTime, videoTime, clock, drag, params>>
  /\ exportOut' = NoExport
  /\ UNCHANGED <<recVars, renVars>>

\* onHandleDrag: mousedown on the start or end handle of segments[i].
OnHandleDrag(i, type) ==
  /\ ~drag.active
  /\ i \in DOMAIN segments
  /\ drag' = [active |-> TRUE, type |-> type, id |-> segments[i].id,
              initialStart |-> segments[i].start,
              initialEnd |-> segments[i].end,
              segs |-> segments, alias |-> TRUE,
              safeDuration |-> SafeDuration(duration)]
  /\ last' = "mousedown"
  /\ UNCHANGED <<segments, duration, currentTime, videoTime, clock, params>>
  /\ exportOut' = NoExport
  /\ UNCHANGED <<recVars, renVars>>

\* The newStart of onMouseMove for a start-handle drag.
DragNewStart(initialStart, initialEnd, deltaTime) ==
  Max2(0, Min2(initialEnd - MinWidth, initialStart + deltaTime))

\* The newEnd of onMouseMove for an end-handle drag.
DragNewEnd(initialStart, initialEnd, safeDur, deltaTime) ==
  Max2(initialStart + MinWidth, Min2(safeDur, initialEnd + deltaTime))

\* handleTrimSegment(id, start, end) over the array segs.
TrimSegments(segs, id, start, end) ==
  [i \in DOMAIN segs |->
     IF segs[i].id = id THEN [segs[i] EXCEPT !.start = start, !.end = end]
     ELSE segs[i]]

\* onMouseMove: the pointer is deltaTime away from where the drag began.  The
\* listener calls the handleTrimSegment of the render of the mousedown.
OnMouseMove(deltaTime) ==
  /\ drag.active
  /\ IF drag.type = "start"
     THEN segments' = TrimSegments(drag.segs, drag.id,
             DragNewStart(drag.initialStart, drag.initialEnd, deltaTime),
             drag.initialEnd)
     ELSE segments' = TrimSegments(drag.segs, drag.id, drag.initialStart,
             DragNewEnd(drag.initialStart, drag.initialEnd, drag.safeDuration,
                        deltaTime))
  /\ drag' = [drag EXCEPT !.alias = FALSE]
  /\ last' = IF drag.type = "start" THEN "trim_start" ELSE "trim_end"
  /\ UNCHANGED <<duration, currentTime, videoTime, clock, params>>
  /\ exportOut' = NoExport
  /\ UNCHANGED <<recVars, renVars>>

\* onMouseUp: the listeners are removed.
OnMouseUp ==
  /\ drag.active
  /\ drag' = NoDrag
  /\ last' = "mouseup"
  /\ UNCHANGED <<segments, duration, currentTime, videoTime, clock, params>>
  /\ exportOut' = NoExport
  /\ UNCHANGED <<recVars, renVars>>

\* The durations a loaded source reports.
Durations == {MaxDuration}
Times == 0..MaxDuration
Deltas == (0 - MaxDuration)..MaxDuration

NextTimeline ==
  \/ \E d \in Durations : HandleLoadedMetadata(d)
  \/ \E t \in Times : HandleSeek(t)
  \/ \E t \in Times : HandleTimeUpdate(t)
  \/ HandleSplit
  \/ \E id \in Ids(segments) : HandleDeleteSegment(id)
  \/ \E i \in DOMAIN segments, type \in {"start", "end"} : OnHandleDrag(i, type)
  \/ \E dt \in Deltas : OnMouseMove(dt)
  \/ OnMouseUp

\* The same editing session on a source long enough for a handle to be
\* dragged across the start of another segment.
TrimTimes == 0..MaxTrimDuration
TrimDeltas == (0 - MaxTrimDuration)..MaxTrimDuration

\* Cutting and deleting on the longer source with up to MaxCuts cuts, so
\* that a list of two segments is cut again.
NextCut ==
  \/ HandleLoadedMetadata(MaxTrimDuration)
  \/ \E t \in TrimTimes : HandleSeek(t)
  \/ \E t \in TrimTimes : HandleTimeUpdate(t)
  \/ HandleSplitWithin(MaxCuts)
  \/ \E id \in Ids(segments) : HandleDeleteSegment(id)

\* The whole editor on the longer source: cuts, deletions and trims.
NextEdit ==
  \/ NextCut
  \/ \E i \in DOMAIN segments, type \in {"start", "end"} : OnHandleDrag(i, type)
  \/ \E dt \in TrimDeltas : OnMouseMove(dt)
  \/ OnMouseUp

NextTrim ==
  \/ HandleLoadedMetadata(MaxTrimDuration)
  \/ \E t \in TrimTimes : HandleSeek(t)
  \/ \E t \in TrimTimes : HandleTimeUpdate(t)
  \/ HandleSplit
  \/ \E id \in Ids(segments) : HandleDeleteSegment(id)
  \/ \E i \in DOMAIN segments, type \in {"start", "end"} : OnHandleDrag(i, type)
  \/ \E dt \in TrimDeltas : OnMouseMove(dt)
  \/ OnMouseUp

\* ------------------------------------------------- parameters and export
\* The values the volume and speed sliders are moved to, in hundredths.
Volumes == {0, 100}
Speeds == {100, 200}

\* updateState({videoVolume}), updateState({musicVolume}),
\* updateState({playbackSpeed}): the range inputs of the side panel.
UpdateState(f, v) ==
  /\ duration > 0
  /\ ~drag.active
  /\ params' = [params EXCEPT ![f] = v]
  /\ last' = "update"
  /\ UNCHANGED <<segments, duration, currentTime, videoTime, clock, drag>>
  /\ exportOut' = NoExport
  /\ UNCHANGED <<recVars, renVars>>

\* handleAudioUpload, the music-track buttons and the remove button.
UpdateAudio(kind) ==
  /\ duration > 0
  /\ ~drag.active
  /\ params' = [params EXCEPT
       !.addedAudioBlob = IF kind = "file" THEN "blob" ELSE "null",
       !.addedAudioUrl = IF kind = "track" THEN "url" ELSE "null"]
  /\ last' = "update"
  /\ UNCHANGED <<segments, duration, currentTime, videoTime, clock, drag>>
  /\ exportOut' = NoExport
  /\ UNCHANGED <<recVars, renVars>>

\* |x|
Abs(x) == IF x < 0 THEN 0 - x ELSE x

\* isClean of handleExport, read off currentState st (the EditorState fields
\* plus segments) and the duration state.
IsClean(format, segs, st, dur) ==
  /\ format = "webm"
  /\ Len(segs) = 1
  /\ segs[1].start = 0
  /\ Abs(segs[1].end - dur) < CleanTolerance
  /\ Field(st, "videoVolume") = 100
  /\ Field(st, "playbackSpeed") = 100
  /\ Field(st, "zoom") = 100
  /\ Field(st, "panX") = 0
  /\ Field(st, "panY") = 0
  /\ ~Truthy(Field(st, "bgImageBlob"))
  /\ ~Truthy(Field(st, "bgImageUrl"))
  /\ Field(st, "bgColor") = "#000000"
  /\ ~Truthy(Field(st, "addedAudioBlob"))
  /\ ~Truthy(Field(st, "addedAudioUrl"))

Formats == {"webm", "mp4", "gif"}
Locations == {"local", "drive", "youtube"}

\* handleExport(options). ok is whether processVideo (and the upload that may
\* follow it) succeeds.  exportOut records the request, whether processVideo
\* was invoked and which blob was handed to the download or the upload.
HandleExport(format, location, ok) ==
  /\ ~drag.active
  /\ Len(segments) # 0
  /\ IF IsClean(format, segments, params, duration) /\ location = "local"
     THEN /\ exportOut' = [format |-> format, location |-> location,
                           processVideo |-> FALSE, blob |-> "original"]
          /\ UNCHANGED segments
     ELSE /\ exportOut' = [format |-> format, location |-> location,
                           processVideo |-> TRUE,
                           blob |-> IF ok THEN "rendered" ELSE "none"]
          /\ segments' = SortByStart(segments)
  /\ last' = "export"
  /\ UNCHANGED <<duration, currentTime, videoTime, clock, drag, params>>
  /\ UNCHANGED <<recVars, renVars>>

\* The editing session seen from the export dialog: cuts, parameters, export.
NextExport ==
  \/ \E d \in Durations : HandleLoadedMetadata(d)
  \/ \E t \in Times : HandleSeek(t)
  \/ HandleSplit
  \/ \E id \in Ids(segments) : HandleDeleteSegment(id)
  \/ \E v \in Volumes : UpdateState("videoVolume", v)
  \/ \E v \in Speeds : UpdateState("playbackSpeed", v)
  \/ \E k \in {"file", "track", "none"} : UpdateAudio(k)
  \/ \E f \in Formats, l \in Locations, ok \in BOOLEAN : HandleExport(f, l, ok)

\* ======================================================= useScreenRecorder
\* The startRecording calls that got past the guard so far, in call order.
Sessions == DOMAIN rs.sess

\* The options startRecording is called with, after the first lines of the
\* function: camera, shouldRecordAudio, shouldUseAudioMixing and which
\* background was asked for.  One call per path through the function: the
\* screen with mixed audio over an image, the screen with mixed audio and no
\* background, the screen without audio over a colour, the camera.
OptionSets ==
  {[camera |-> FALSE, audio |-> TRUE, mix |-> TRUE, bg |-> "image"],
   [camera |-> FALSE, audio |-> TRUE, mix |-> TRUE, bg |-> "none"],
   [camera |-> FALSE, audio |-> FALSE, mix |-> FALSE, bg |-> "color"],
   [camera |-> TRUE, audio |-> TRUE, mix |-> FALSE, bg |-> "none"]}

\* A startRecording call with options o, made from the render whose
\* mediaStream state was m, at its first await: it holds nothing yet.
NewSession(o, m) ==
  [pc |-> "getMedia", opts |-> o, closure |-> m, stream |-> "none",
   mic |-> "none", ctx |-> "none", loop |-> "none", canvasTrack |-> "none",
   img |-> "none", rec |-> "none", stopEvt |-> FALSE, outcome |-> "none"]

\* The awaits of startRecording.
Pending == {"getMedia", "getMediaFallback", "getMic", "videoReady", "bgImage",
            "warmup"}

NullBlob == [kind |-> "null", chunks |-> <<>>]

\* Lines 262-282: the hook's state and refs.  A stream, an encoder, an audio
\* context, a canvas, a video element, an armed animation frame and a
\* background image are each named by the session that made them (0: null).
status == rs.status
mediaStream == rs.mediaStream
mediaBlobUrl == rs.mediaBlobUrl
currentBlob == rs.currentBlob
error == rs.error
guard == rs.guard
mediaRecorderRef == rs.mediaRecorderRef
chunksRef == rs.chunksRef
audioContextRef == rs.audioContextRef
animationFrameRef == rs.animationFrameRef
canvasRef == rs.canvasRef
videoElementRef == rs.videoElementRef
backgroundImageRef == rs.backgroundImageRef

\* Per startRecording call: its position in the function and what it holds.
sess == rs.sess

\* App.tsx line 52: timeLimitRef holds no timeout.
NoTimer == [request |-> 0, for |-> 0]

InitRecorder ==
  /\ rs = [status |-> "idle", mediaStream |-> 0, mediaBlobUrl |-> "null",
           currentBlob |-> NullBlob, error |-> "null", guard |-> FALSE,
           mediaRecorderRef |-> 0, chunksRef |-> <<>>, audioContextRef |-> 0,
           animationFrameRef |-> 0, canvasRef |-> 0, videoElementRef |-> 0,
           backgroundImageRef |-> 0, sess |-> <<>>,
           timeLimitRef |-> NoTimer, timers |-> {}, requests |-> 0]

\* The recorder state as one record, so that the helpers below can be chained
\* the way the statements of a handler are.
RecState == rs


\* stream.getTracks().forEach(track => track.stop()) on the primary stream of
\* session m (0: there is no stream).
StopTracks(r, m) ==
  IF m = 0 \/ r.sess[m].stream # "live" THEN r
  ELSE [r EXCEPT !.sess[m].stream = "stopped"]

\* cancelAnimationFrame(animationFrameRef.current); animationFrameRef.current = null
CancelFrame(r) ==
  IF r.animationFrameRef = 0 THEN r
  ELSE [r EXCEPT !.animationFrameRef = 0,
                 !.sess[r.animationFrameRef].loop =
                    IF @ = "running" THEN "stopped" ELSE @]

\* audioContextRef.current.close(); audioContextRef.current = null
CloseAudio(r) ==
  IF r.audioContextRef = 0 THEN r
  ELSE [r EXCEPT !.audioContextRef = 0,
                 !.sess[r.audioContextRef].ctx = "closed"]

\* cleanupStream as created by the render whose mediaStream state was m.
CleanupStream(r, m) ==
  LET r1 == CancelFrame(r)
      r2 == [r1 EXCEPT !.videoElementRef = 0, !.canvasRef = 0,
                       !.backgroundImageRef = 0]
      r3 == IF m # 0 THEN [StopTracks(r2, m) EXCEPT !.mediaStream = 0] ELSE r2
  IN CloseAudio(r3)

\* The user-facing messages (lines 420, 477, 484, 565, 633, 645, 663, 718, 720).
PermissionDenied == "Permission denied. Please allow access to record."
DeviceNotFound ==
  "Requested device not found. Ensure your browser supports screen sharing."
EncodingError == "Recording failed: Encoding error occurred"
NoDataCaptured == "Recording failed: No data captured"
EmptyVideoData == "Recording failed: Empty video data"
ImageTainted ==
  "Background image does not support CORS and will corrupt the recording. Please use a local image or ensure the image server has CORS headers."
ImageLoadFailed ==
  "Failed to load background image. Please check the URL or try a different image."
VideoLoadFailed == "Failed to load video stream"
CanvasNotLive == "Canvas stream failed to initialize properly"

\* Lines 319-326: the effect depends on cleanupStream (which changes with the
\* mediaStream state) and on mediaBlobUrl.  When a handler leaves either
\* changed, the component renders again and the cleanup of the previous
\* render's effect runs: the cleanupStream that closed over the mediaStream m
\* of that render.  Its setMediaStream(null) can cause one more render.
RECURSIVE Render(_, _, _)
Render(r, m, urlChanged) ==
  IF r.mediaStream = m /\ ~urlChanged THEN r
  ELSE Render(CleanupStream(r, m), r.mediaStream, FALSE)

\* App.tsx lines 72-77: the effect that depends on status.  It runs after a
\* render in which status differs from the render before (was), and clears
\* the timer in timeLimitRef when status is not 'recording'.
ClearTimeLimit(r, was) ==
  IF r.status # was /\ r.status # "recording" /\ r.timeLimitRef # NoTimer
  THEN [r EXCEPT !.timers = @ \ {r.timeLimitRef}, !.timeLimitRef = NoTimer]
  ELSE r

\* The handler ends in state r, and the renders it causes and their effects
\* have run.
Commit(r) ==
  rs' = ClearTimeLimit(Render(r, mediaStream, r.mediaBlobUrl # mediaBlobUrl),
                       status)

\* The same for a handler that made a new object URL.
CommitNewUrl(r) == rs' = ClearTimeLimit(Render(r, mediaStream, TRUE), status)

\* The message the catch block of startRecording sets for the thrown error.
CatchMessage(err) ==
  CASE err = "NotAllowedError" -> PermissionDenied
    [] err = "NotFoundError" -> DeviceNotFound
    [] OTHER -> err

\* The catch block without the reset of the guard in its last line.
CatchKeepsGuard(r, s, err) ==
  [r EXCEPT !.error = CatchMessage(err), !.status = "idle",
            !.sess[s].pc = "failed", !.sess[s].outcome = "startFailed"]

\* The catch block of startRecording, for session s.
Catch(r, s, err) ==
  [r EXCEPT !.error = CatchMessage(err), !.status = "idle", !.guard = FALSE,
            !.sess[s].pc = "failed", !.sess[s].outcome = "startFailed"]

\* Lines 582-713: the encoder is built on the recording stream and started.
\* ctorOk is whether new MediaRecorder(...) succeeds.
WireEncoder(r, s, ctorOk) ==
  IF ~ctorOk THEN Catch(r, s, "NotSupportedError")
  ELSE [r EXCEPT !.mediaRecorderRef = s, !.chunksRef = <<>>,
                 !.sess[s].rec = "recording", !.status = "recording",
                 !.sess[s].pc = "started"]

\* Lines 576-580: no background, the original stream is recorded.
RecordRawStream(r, s, ctorOk) ==
  WireEncoder([r EXCEPT !.mediaStream = s], s, ctorOk)

\* Lines 406-421: the hidden video element is created and awaited.
BeginCompositing(r, s) ==
  [r EXCEPT !.videoElementRef = s, !.sess[s].pc = "videoReady"]

\* Lines 402-405: after the audio set-up, choose what is recorded.
AfterAudio(r, s, ctorOk) ==
  IF r.sess[s].opts.bg # "none" THEN BeginCompositing(r, s)
  ELSE RecordRawStream(r, s, ctorOk)

\* Lines 370, 402: the primary stream of session s has been acquired.
StreamAcquired(r, s, ctorOk) ==
  LET r1 == [r EXCEPT !.sess[s].stream = "live"]
      o == r.sess[s].opts
  IN IF ~o.camera /\ o.mix /\ o.audio
     THEN [r1 EXCEPT !.sess[s].pc = "getMic"]
     ELSE AfterAudio(r1, s, ctorOk)

\* drawFrame: one run of the draw callback of session s.
DrawFrame(r, s) ==
  IF r.canvasRef = 0 \/ r.videoElementRef = 0
  THEN [r EXCEPT !.sess[s].loop = "stopped"]
  ELSE [r EXCEPT !.sess[s].loop = "running", !.animationFrameRef = s]

\* Lines 490-559: canvas.captureStream(30), the first drawFrame(), and the
\* 200 ms warm-up wait.
StartSurface(r, s) ==
  [DrawFrame([r EXCEPT !.sess[s].canvasTrack = "live"], s)
     EXCEPT !.sess[s].pc = "warmup"]

\* getUserMedia / getDisplayMedia rejections: the two the catch block names,
\* the other two line 362 tests for, and one that neither place names.
MediaErrors == {"NotAllowedError", "NotFoundError", "InvalidStateError",
                "TypeError", "AbortError"}

\* Line 362: the causes after which the screen is requested again without audio.
Recoverable == {"NotFoundError", "InvalidStateError", "TypeError"}

\* startRecording(options): lines 328-346, up to the first await.
StartRecording(o) ==
  IF guard
  THEN UNCHANGED vars
  ELSE /\ Len(sess) < MaxSessions
       /\ LET r0 == [RecState EXCEPT !.guard = TRUE, !.error = "null"]
              r1 == CleanupStream(r0, mediaStream)
          IN Commit([r1 EXCEPT !.sess = Append(@, NewSession(o, mediaStream))])
       /\ UNCHANGED <<edVars, renVars>>

\* App.tsx lines 153-172, handleStartCapture without countdown: startFn
\* calls startRecording(options) and, with a time limit, arms a timeout and
\* puts it in timeLimitRef.  The timeout is named by the number of the
\* request and by the session its startRecording call opened (0: the call
\* was ignored).  The record button is not shown while status is 'recording'
\* (line 199).
HandleStartCapture(o, timeLimit) ==
  /\ status # "recording"
  /\ rs.requests < MaxRequests
  /\ guard \/ Len(sess) < MaxSessions
  /\ LET r0 == [RecState EXCEPT !.requests = @ + 1]
         r1 == IF guard THEN r0
               ELSE [CleanupStream([r0 EXCEPT !.guard = TRUE,
                                              !.error = "null"], mediaStream)
                       EXCEPT !.sess = Append(@, NewSession(o, mediaStream))]
         timer == [request |-> r0.requests,
                   for |-> IF guard THEN 0 ELSE Len(r1.sess)]
     IN Commit(IF timeLimit
               THEN [r1 EXCEPT !.timeLimitRef = timer,
                               !.timers = @ \cup {timer}]
               ELSE r1)
  /\ UNCHANGED <<edVars, renVars>>

\* Lines 348-368: the first getUserMedia / getDisplayMedia settles.
GetMedia(s, res, ctorOk) ==
  /\ sess[s].pc = "getMedia"
  /\ LET o == sess[s].opts
     IN IF res = "ok" THEN Commit(StreamAcquired(RecState, s, ctorOk))
        ELSE IF ~o.camera /\ o.audio /\ res \in Recoverable
             THEN Commit([RecState EXCEPT !.sess[s].pc = "getMediaFallback"])
             ELSE Commit(Catch(RecState, s, res))
  /\ UNCHANGED <<edVars, renVars>>

\* Line 364: the video-only getDisplayMedia settles.
GetMediaFallback(s, res, ctorOk) ==
  /\ sess[s].pc = "getMediaFallback"
  /\ IF res = "ok" THEN Commit(StreamAcquired(RecState, s, ctorOk))
     ELSE Commit(Catch(RecState, s, res))
  /\ UNCHANGED <<edVars, renVars>>

\* Lines 370-399: the microphone request settles; a failure is only logged.
GetMic(s, micOk, ctorOk) ==
  /\ sess[s].pc = "getMic"
  /\ LET r1 == IF micOk
               THEN [RecState EXCEPT !.sess[s].mic = "live",
                                     !.sess[s].ctx = "open",
                                     !.audioContextRef = s]
               ELSE RecState
     IN Commit(AfterAudio(r1, s, ctorOk))
  /\ UNCHANGED <<edVars, renVars>>

\* Lines 416-435: the hidden video element is ready (or fails).
VideoReady(s, ok) ==
  /\ sess[s].pc = "videoReady"
  /\ IF ~ok THEN Commit(Catch(RecState, s, VideoLoadFailed))
     ELSE LET r1 == [RecState EXCEPT !.canvasRef = s]
          IN IF sess[s].opts.bg = "image"
             THEN Commit([r1 EXCEPT !.sess[s].pc = "bgImage"])
             ELSE Commit(StartSurface(r1, s))
  /\ UNCHANGED <<edVars, renVars>>

\* What the background image load can end in: onload with the decode and the
\* taint test passing, onerror, decode() rejecting, getImageData throwing.
ImageResults == {"ok", "loadError", "decodeError", "tainted"}

\* The image load rejecting on the error event only: a decode failure or a
\* tainted canvas is swallowed.
ImageRejectsOnErrorOnly(res) == res = "loadError"

\* Lines 454-486: the promise around the image load rejects.
ImageRejects(res) == res # "ok"

\* Lines 477, 484: the message of the rejection.
ImageMessage(res) ==
  IF res = "loadError" THEN ImageLoadFailed
  ELSE ImageTainted

\* Lines 437-488: the background image load settles.
BgImage(s, res) ==
  /\ sess[s].pc = "bgImage"
  /\ IF ImageRejects(res)
     THEN Commit(Catch(RecState, s, ImageMessage(res)))
     ELSE Commit(StartSurface(
            [RecState EXCEPT !.backgroundImageRef = s,
                             !.sess[s].img = IF res = "ok" THEN "loaded"
                                             ELSE "missing"], s))
  /\ UNCHANGED <<edVars, renVars>>

\* Lines 553-580: the warm-up timer fires; live is whether the canvas track
\* is in the live state.
Warmup(s, live, ctorOk) ==
  /\ sess[s].pc = "warmup"
  /\ IF ~live
     THEN Commit(Catch([RecState EXCEPT !.sess[s].canvasTrack = "ended"], s,
                       CanvasNotLive))
     ELSE Commit(WireEncoder([RecState EXCEPT !.mediaStream = s], s, ctorOk))
  /\ UNCHANGED <<edVars, renVars>>

\* requestAnimationFrame fires the draw callback of session s.
DrawTick(s) ==
  /\ sess[s].loop = "running"
  /\ Commit(DrawFrame(RecState, s))
  /\ UNCHANGED <<edVars, renVars>>

\* The sizes of the buffers the encoder delivers.
Sizes == {0, 1}

\* Blob.size of the blob built from the chunks.
RECURSIVE BlobSize(_)
BlobSize(chunks) ==
  IF chunks = <<>> THEN 0 ELSE Head(chunks).size + BlobSize(Tail(chunks))

\* mediaRecorder.ondataavailable (lines 623-628) of the encoder of session s.
DataAvailable(s, size) ==
  /\ sess[s].rec = "recording" \/ sess[s].stopEvt
  /\ Len(chunksRef) < MaxData
  /\ IF size > 0
     THEN Commit([RecState EXCEPT !.chunksRef =
                    Append(@, [from |-> s, n |-> Len(@) + 1, size |-> size])])
     ELSE UNCHANGED rs
  /\ UNCHANGED <<edVars, renVars>>

\* MediaRecorder.stop(), and what the user agent does when it stops the
\* encoder itself: state becomes inactive, a stop event is queued.
Inactivate(r, s) ==
  [r EXCEPT !.sess[s].rec = "inactive", !.sess[s].stopEvt = TRUE]

\* mediaRecorder.onerror (lines 631-637): the encoder of session s fails.
EncoderError(s) ==
  /\ sess[s].rec = "recording"
  /\ LET r1 == Inactivate(RecState, s)
         r2 == [r1 EXCEPT !.error = EncodingError,
                          !.status = "idle", !.guard = FALSE,
                          !.sess[s].outcome = "encoderError"]
     IN Commit(CleanupStream(r2, sess[s].closure))
  /\ UNCHANGED <<edVars, renVars>>

\* The stop handler without its two validations.
FinishKindUnchecked(chunks) == "recorded"

\* Lines 643-668: what the stop handler makes of the chunks.
FinishKind(chunks) ==
  IF Len(chunks) = 0 THEN "noData"
  ELSE IF BlobSize(chunks) = 0 THEN "empty"
  ELSE "recorded"

\* Lines 643-650 and 661-668: the two failure returns of the stop handler.
FinishFailed(r, s, kind) ==
  CleanupStream(
    [r EXCEPT !.error = IF kind = "noData" THEN NoDataCaptured
                        ELSE EmptyVideoData,
              !.status = "idle", !.guard = FALSE, !.sess[s].outcome = kind],
    r.sess[s].closure)

\* Lines 670-678 and 689-701: the blob is published and the session torn down.
FinishRecorded(r, s) ==
  LET r1 == [r EXCEPT !.mediaBlobUrl = "url",
                      !.currentBlob = [kind |-> "recording",
                                       chunks |-> r.chunksRef],
                      !.status = "recorded", !.guard = FALSE,
                      !.sess[s].outcome = "recorded"]
      r2 == StopTracks(CancelFrame(r1), s)
  IN CloseAudio([r2 EXCEPT !.mediaStream = 0])

\* mediaRecorder.onstop (lines 639-702) of the encoder of session s.
OnStop(s) ==
  /\ sess[s].stopEvt
  /\ LET r1 == [RecState EXCEPT !.sess[s].stopEvt = FALSE]
         kind == FinishKind(chunksRef)
     IN /\ IF kind = "recorded" THEN CommitNewUrl(FinishRecorded(r1, s))
           ELSE Commit(FinishFailed(r1, s, kind))
  /\ UNCHANGED <<edVars, renVars>>

\* stopRecording's test without the comparison of the encoder state.
ShouldStopAnyState(r) == r.mediaRecorderRef # 0

\* Line 731: mediaRecorderRef.current && mediaRecorderRef.current.state !==
\* 'inactive'.
ShouldStop(r) ==
  r.mediaRecorderRef # 0 /\ r.sess[r.mediaRecorderRef].rec # "inactive"

\* stopRecording (lines 730-734).
StopRecording ==
  /\ IF ShouldStop(RecState)
     THEN Commit(Inactivate(RecState, mediaRecorderRef))
     ELSE UNCHANGED rs
  /\ UNCHANGED <<edVars, renVars>>

\* App.tsx lines 168-171: the timeout fires: stopRecording(), then the alert
\* "Time limit reached. Recording stopped."
TimeLimitReached(timer) ==
  /\ timer \in rs.timers
  /\ LET r1 == [RecState EXCEPT !.timers = @ \ {timer}]
     IN IF ShouldStop(r1) THEN Commit(Inactivate(r1, mediaRecorderRef))
        ELSE Commit(r1)
  /\ UNCHANGED <<edVars, renVars>>

\* The onended handler without the comparison of the encoder state.
EncoderAnyState(r, s) == TRUE

\* Line 705: mediaRecorder.state !== 'inactive', for the encoder of session s.
EncoderRunning(r, s) == r.sess[s].rec # "inactive"

\* Lines 704-708: the primary video track ends (sharing is revoked) after the
\* onended handler was attached.
TrackEnded(s) ==
  /\ sess[s].pc = "started"
  /\ sess[s].stream = "live"
  /\ LET r1 == [RecState EXCEPT !.sess[s].stream = "ended"]
     IN IF EncoderRunning(RecState, s) THEN Commit(Inactivate(r1, s))
        ELSE Commit(r1)
  /\ UNCHANGED <<edVars, renVars>>

\* The user agent stops an encoder whose recorded stream has no live track
\* left: the raw stream of a session without background once its tracks were
\* stopped.
StreamInactive(s) ==
  /\ sess[s].rec = "recording"
  /\ sess[s].opts.bg = "none"
  /\ sess[s].stream # "live"
  /\ Commit(Inactivate(RecState, s))
  /\ UNCHANGED <<edVars, renVars>>

\* resetRecording (lines 736-747).
ResetRecording ==
  /\ LET r1 == CleanupStream(RecState, mediaStream)
     IN Commit([r1 EXCEPT !.mediaBlobUrl = "null", !.currentBlob = NullBlob,
                          !.error = "null", !.status = "idle",
                          !.guard = FALSE])
  /\ UNCHANGED <<edVars, renVars>>

\* loadRecording(blob) (lines 749-759).
LoadRecording ==
  /\ LET r1 == CleanupStream(RecState, mediaStream)
     IN CommitNewUrl([r1 EXCEPT !.mediaBlobUrl = "url",
                          !.currentBlob = [kind |-> "library",
                                           chunks |-> <<>>],
                          !.status = "recorded", !.error = "null"])
  /\ UNCHANGED <<edVars, renVars>>

NextRecorder ==
  \/ \E o \in OptionSets : StartRecording(o)
  \/ \E s \in Sessions, res \in {"ok"} \cup MediaErrors, ok \in BOOLEAN :
       GetMedia(s, res, ok)
  \/ \E s \in Sessions, res \in {"ok"} \cup MediaErrors, ok \in BOOLEAN :
       GetMediaFallback(s, res, ok)
  \/ \E s \in Sessions, micOk \in BOOLEAN, ok \in BOOLEAN : GetMic(s, micOk, ok)
  \/ \E s \in Sessions, ok \in BOOLEAN : VideoReady(s, ok)
  \/ \E s \in Sessions, res \in ImageResults : BgImage(s, res)
  \/ \E s \in Sessions, live \in BOOLEAN, ok \in BOOLEAN : Warmup(s, live, ok)
  \/ \E s \in Sessions : DrawTick(s)
  \/ \E s \in Sessions, size \in Sizes : DataAvailable(s, size)
  \/ \E s \in Sessions : EncoderError(s)
  \/ \E s \in Sessions : OnStop(s)
  \/ StopRecording
  \/ \E s \in Sessions : TrackEnded(s)
  \/ \E s \in Sessions : StreamInactive(s)
  \/ ResetRecording
  \/ LoadRecording

\* The options of a plain screen capture: no camera, no audio, no background.
ScreenOnly ==
  {[camera |-> FALSE, audio |-> FALSE, mix |-> FALSE, bg |-> "none"]}

\* The timeouts that can have been armed.
Timers == [request : 1..MaxRequests, for : 0..MaxSessions]

\* App.tsx with the hook: captures of the screen requested with or without a
\* time limit.
NextCapture ==
  \/ \E o \in ScreenOnly, timeLimit \in BOOLEAN : HandleStartCapture(o, timeLimit)
  \/ \E timer \in Timers : TimeLimitReached(timer)
  \/ \E s \in Sessions, res \in {"ok"} \cup MediaErrors, ok \in BOOLEAN :
       GetMedia(s, res, ok)
  \/ \E s \in Sessions, size \in Sizes : DataAvailable(s, size)
  \/ \E s \in Sessions : EncoderError(s)
  \/ \E s \in Sessions : OnStop(s)
  \/ StopRecording
  \/ \E s \in Sessions : TrackEnded(s)
  \/ \E s \in Sessions : StreamInactive(s)
  \/ ResetRecording
  \/ LoadRecording

\* ============================================== handleExport: the layout
\* Zoom and pan are counted in hundredths, as the other editor parameters.
\* A length v is held as the integer v * LayoutUnit(zoom): the division by
\* the zoom, the halving and the product with the pan are then exact.
LayoutUnit(zoom) == 2 * zoom * 100

\* Lines 382-401: the sourceRect for a video element reporting videoWidth vw
\* and videoHeight vh, in units of 1 / LayoutUnit(zoom) pixel.
SourceRect(vw, vh, zoom, panX, panY) ==
  LET K == LayoutUnit(zoom)
      vidW == (IF vw = 0 THEN DefaultWidth ELSE vw) * K
      vidH == (IF vh = 0 THEN DefaultHeight ELSE vh) * K
      cropW == (vidW \div zoom) * 100
      cropH == (vidH \div zoom) * 100
      maxShiftX == (vidW - cropW) \div 2
      maxShiftY == (vidH - cropH) \div 2
      shiftX == panX * (maxShiftX \div 100)
      shiftY == panY * (maxShiftY \div 100)
      cropX == (vidW - cropW) \div 2 - shiftX
      cropY == (vidH - cropH) \div 2 - shiftY
  IN [x |-> Max2(0, Min2(vidW - cropW, cropX)),
      y |-> Max2(0, Min2(vidH - cropH, cropY)),
      width |-> cropW,
      height |-> cropH]

NoLayout == [set |-> FALSE]

InitLayout == layout = NoLayout

\* The frame sides a video element reports (0 before it has any), the zoom
\* factors and the pan offsets.
Sides == 0..MaxSide
Zooms == {100 * k : k \in 1..MaxZoom}
Pans == {0 - 100, 0 - 50, 0, 50, 100}

\* Lines 380-411 of handleExport: the layout handed to processVideo.
ComputeLayout(vw, vh, zoom, panX, panY) ==
  /\ layout' = [set |-> TRUE, zoom |-> zoom, panX |-> panX, panY |-> panY,
                vidW |-> IF vw = 0 THEN DefaultWidth ELSE vw,
                vidH |-> IF vh = 0 THEN DefaultHeight ELSE vh,
                sourceRect |-> SourceRect(vw, vh, zoom, panX, panY)]
  /\ UNCHANGED <<edVars, recVars, rn, twin>>

NextLayout ==
  \E vw \in Sides, vh \in Sides, z \in Zooms, px \in Pans, py \in Pans :
    ComputeLayout(vw, vh, z, px, py)

\* ============================================================ processVideo
\* The two definitions of processVideo: utils/videoProcessor.ts ("native": a
\* GIF is built from frames grabbed by seeking) and unnamed/part_005
\* ("ffmpeg": a GIF is converted from the re-captured video).
Renderers == {"native", "ffmpeg"}

\* What the caller's onProgress has been handed so far.  Values are counted
\* in units of 1 / (100 * totalDuration); full records that the value 1 was
\* among them.
NoProgress ==
  [any |-> FALSE, last |-> 0, mono |-> TRUE, inRange |-> TRUE, full |-> FALSE]

\* No rectangle has been computed yet.
NoRect == [x |-> 0, y |-> 0, width |-> 0, height |-> 0]

\* The frame of the source video as the hidden video element reports it
\* (video.videoWidth, video.videoHeight).
VideoWidth == MaxSide
VideoHeight == MaxSide

\* Lines 104-111 (part_005: 89-94): the rectangle of the source handed to
\* drawImage, taken from the layout as it is, or the whole frame when the
\* layout has none.
UsedSourceRect(lay) ==
  IF lay.given THEN lay.sourceRect
  ELSE [x |-> 0, y |-> 0, width |-> VideoWidth, height |-> VideoHeight]

\* Lines 107-111: the destination rectangle, the source rectangle scaled by
\* Math.min(outputWidth / width, outputHeight / height) and centred, for a
\* rectangle of positive size.  Lengths are in units of 1 / (2 * width *
\* height) pixel, in which the quotients are whole.
DestUnit(rect) == 2 * rect.width * rect.height

DestRect(rect) ==
  LET U == DestUnit(rect)
      byWidth == OutputWidth * rect.height <= OutputHeight * rect.width
      drawnWidth == IF byWidth THEN OutputWidth * U
                    ELSE 2 * rect.width * rect.width * OutputHeight
      drawnHeight == IF byWidth THEN 2 * rect.height * rect.height * OutputWidth
                     ELSE OutputHeight * U
  IN [x |-> (OutputWidth * U - drawnWidth) \div 2,
      y |-> (OutputHeight * U - drawnHeight) \div 2,
      width |-> drawnWidth, height |-> drawnHeight]

\* The state before processVideo is called.  recorded, outside and heard
\* describe what the encoder has taken in: source time in ticks, the part of
\* it lying in no retained segment, and the audio sources with their gains.
\* videoUrl and musicUrl are the object URLs made for the source blob and the
\* added audio blob, audio the AudioContext, drawing the requestAnimationFrame
\* loop, stopEvt a stop event queued for the encoder, settled the promise the
\* caller holds, and after the position of the segment loop when it is still
\* running behind a rejection.  layout is options.layout, sourceRect and
\* drawn the two rectangles every drawImage call is given.  duration is the
\* length of the source, shown the sum of the delays given to gif.addFrame,
\* in hundredths of a tick.
IdleRender ==
  [pc |-> "idle", impl |-> "none", format |-> "none",
   segments |-> <<>>, sortedSegments |-> <<>>,
   totalDuration |-> 0, processedDuration |-> 0, k |-> 0, currentTime |-> 0,
   videoVolume |-> 0, musicVolume |-> 0, playbackSpeed |-> 100,
   music |-> FALSE, musicElement |-> "null", musicPlaying |-> FALSE,
   made |-> {}, videoT |-> 0, paused |-> TRUE, ended |-> FALSE,
   recorder |-> "none", progress |-> NoProgress, error |-> "null",
   frames |-> 0, recorded |-> 0, outside |-> 0, heard |-> {},
   videoUrl |-> "none", musicUrl |-> "none", audio |-> "none",
   drawing |-> "none", stopEvt |-> FALSE, settled |-> "none",
   after |-> "none", layout |-> [given |-> FALSE], sourceRect |-> NoRect,
   drawn |-> NoRect, duration |-> MaxDuration, shown |-> 0]

InitRender == rn = IdleRender /\ twin = IdleRender

NoSegmentsSelected == "No video segments selected for export."
NoCanvasContext == "Failed to create canvas context"
InputLoadFailed == "Failed to load input video"

\* onProgress(v)
OnProgress(r, v) ==
  [r EXCEPT !.progress =
     [any |-> TRUE, last |-> v,
      mono |-> @.mono /\ (~@.any \/ v >= @.last),
      inRange |-> @.inRange /\ 0 <= v /\ v <= 100 * r.totalDuration,
      full |-> @.full \/ v = 100 * r.totalDuration]]

\* sortedSegments.reduce((acc, s) => acc + (s.end - s.start), 0)
RECURSIVE TotalDuration(_)
TotalDuration(segs) ==
  IF segs = <<>> THEN 0
  ELSE Head(segs).end - Head(segs).start + TotalDuration(Tail(segs))

\* The entry test with only the check for a missing list.
NoSegmentsMissingOnly(o) == ~o.given

\* !segments || segments.length === 0
NoSegments(o) == ~o.given \/ Len(o.list) = 0

\* A throw or a reject(...) that settles the caller's promise: the first
\* settlement of a promise is the one that counts.
Reject(r, msg) ==
  IF r.settled # "none" THEN r
  ELSE [r EXCEPT !.settled = "rejected", !.error = msg, !.pc = "failed"]

\* resolve(blob) or the return of the async function.
Resolve(r) ==
  IF r.settled # "none" THEN r
  ELSE [r EXCEPT !.settled = "resolved", !.pc = "done"]

\* processVideo(options) up to its first await: the entry test, the canvas,
\* the video element and the object URL of the source blob.
Called(r, impl, format, o, lay, vv, mv, speed, music, ctxOk) ==
  IF NoSegments(o)
  THEN Reject([r EXCEPT !.impl = impl, !.format = format],
              NoSegmentsSelected)
  ELSE IF ~ctxOk
  THEN Reject([r EXCEPT !.impl = impl, !.format = format,
                        !.made = {"canvas"}], NoCanvasContext)
  ELSE [r EXCEPT !.pc = "loadVideo", !.impl = impl, !.format = format,
                 !.segments = o.list, !.videoVolume = vv,
                 !.musicVolume = mv, !.playbackSpeed = speed,
                 !.music = music, !.made = {"canvas", "video"},
                 !.videoUrl = "live", !.layout = lay]

\* A call of processVideo.
ProcessVideo(impl, format, o, lay, vv, mv, speed, music, ctxOk) ==
  /\ rn.pc = "idle"
  /\ rn' = Called(rn, impl, format, o, lay, vv, mv, speed, music, ctxOk)
  /\ UNCHANGED <<edVars, recVars, layout, twin>>

\* The tick [t, t + 1) of the source lies in a retained segment.
Retained(segs, t) ==
  \E i \in DOMAIN segs : segs[i].start <= t /\ t + 1 <= segs[i].end

\* The audio reaching the destination node while the encoder records: the
\* clip through videoGain, the music (when playing) through musicGain.
Audible(r) ==
  IF "audioCtx" \notin r.made THEN {}
  ELSE {<<"clip", r.videoVolume>>}
         \cup (IF r.musicPlaying THEN {<<"music", r.musicVolume>>} ELSE {})

\* Where the segment loop is: the position of the call, or, once the call
\* has been rejected by recorder.onerror, the position of the loop that is
\* still running.
At(r) == IF r.pc = "failed" THEN r.after ELSE r.pc

\* The segment loop moves to position p.
Goto(r, p) ==
  IF r.pc = "failed" THEN [r EXCEPT !.after = p] ELSE [r EXCEPT !.pc = p]

\* The catch block without its reject(err).
CatchStopsOnly(r, msg) == r

\* Lines 333 and 209: reject(err) at the end of the catch block.
CatchRejects(r, msg) == Reject(r, msg)

\* The catch block of the segment loop: stopDrawing = true, recorder.stop()
\* and reject(err).  stop() on an inactive encoder throws, and nothing of
\* the block runs after it.
CatchBlock(r, msg) ==
  LET r1 == [r EXCEPT !.drawing = "stopped"]
  IN IF r.recorder = "inactive" THEN Goto(r1, "none")
     ELSE CatchRejects([r1 EXCEPT !.recorder = "inactive", !.stopEvt = TRUE],
                       msg)

\* After the last segment: stopDrawing = true, recorder.stop(), and in
\* videoProcessor.ts onProgress(1) right behind it.  When stop() throws, the
\* catch block runs.
FinishLoop(r) ==
  LET r1 == [r EXCEPT !.drawing = "stopped"]
      r2 == [r1 EXCEPT !.recorder = "inactive", !.stopEvt = TRUE,
                       !.pc = "stopping"]
  IN IF r.recorder = "inactive" THEN CatchBlock(r1, "InvalidStateError")
     ELSE IF r.impl = "native" THEN OnProgress(r2, 100 * r.totalDuration)
     ELSE r2

\* The head of the re-capture loop with part_005 leaving out
\* intermediateRecorder.pause(): its encoder records through the seek.
EnterSegmentRunning(r, k) ==
  IF k > Len(r.sortedSegments) THEN FinishLoop(r)
  ELSE Goto([r EXCEPT !.recorder = IF @ = "recording" /\ r.impl = "native"
                                   THEN "paused" ELSE @,
                      !.musicPlaying = FALSE, !.k = k], "seek")

\* The head of the re-capture loop for segment k: the encoder is paused, the
\* music is paused and the seek to segment.start is issued.
EnterSegment(r, k) ==
  IF k > Len(r.sortedSegments) THEN FinishLoop(r)
  ELSE Goto([r EXCEPT !.recorder = IF @ = "recording" THEN "paused" ELSE @,
                      !.musicPlaying = FALSE, !.k = k], "seek")

\* The GIF loop of videoProcessor.ts at segment k: the first seek of the
\* segment, or, after the last segment, onProgress(0.8) and gif.render().
RECURSIVE GifSegment(_, _)
GifSegment(r, k) ==
  IF k > Len(r.sortedSegments)
  THEN [OnProgress(r, 80 * r.totalDuration) EXCEPT !.pc = "gifEncode"]
  ELSE IF r.sortedSegments[k].start < r.sortedSegments[k].end
  THEN [r EXCEPT !.k = k, !.currentTime = r.sortedSegments[k].start,
                 !.pc = "gifSeek"]
  ELSE GifSegment([r EXCEPT !.processedDuration =
                     @ + r.sortedSegments[k].end - r.sortedSegments[k].start],
                  k + 1)

\* The sort, the total, and the start of the GIF loop or of the encoder, the
\* draw loop and the segment loop.
BeginRender(r) ==
  LET sorted == SortByStart(r.segments)
      r1 == [r EXCEPT !.sortedSegments = sorted,
                      !.totalDuration = TotalDuration(sorted),
                      !.processedDuration = 0]
  IN IF r.impl = "native" /\ r.format = "gif" THEN GifSegment(r1, 1)
     ELSE EnterSegment([r1 EXCEPT !.made = @ \cup {"encoder"},
                                  !.recorder = "recording",
                                  !.drawing = "running"], 1)

\* The audio graph is built for every format in part_005, for the video
\* formats only in videoProcessor.ts.
HasAudio(r) == r.impl = "ffmpeg" \/ r.format # "gif"

\* video.onloadedmetadata / video.onerror, then the two rectangles and the
\* audio graph.  The added audio is a blob, for which an object URL is made.
OnVideoLoaded(r, ok) ==
  LET r0 == [r EXCEPT !.sourceRect = UsedSourceRect(r.layout),
                      !.drawn = DestRect(UsedSourceRect(r.layout))]
  IN IF ~ok THEN Reject(r, InputLoadFailed)
     ELSE IF ~HasAudio(r0) THEN BeginRender(r0)
     ELSE IF r0.music
     THEN [r0 EXCEPT !.made = @ \cup {"audioCtx", "music"},
                     !.audio = "open", !.musicUrl = "live",
                     !.musicElement = "loading", !.pc = "loadMusic"]
     ELSE BeginRender([r0 EXCEPT !.made = @ \cup {"audioCtx"},
                                 !.audio = "open"])

\* The source video loads or fails to load.
VideoLoaded(ok) ==
  /\ rn.pc = "loadVideo"
  /\ rn' = OnVideoLoaded(rn, ok)
  /\ UNCHANGED <<edVars, recVars, layout, twin>>

\* musicElement.onloadedmetadata / musicElement.onerror: a music track that
\* does not load is dropped and the export goes on.
OnMusicLoaded(r, ok) ==
  BeginRender([r EXCEPT !.musicElement = IF ok THEN "ready" ELSE "null"])

\* The added audio loads or fails to load.
MusicLoaded(ok) ==
  /\ rn.pc = "loadMusic"
  /\ rn' = OnMusicLoaded(rn, ok)
  /\ UNCHANGED <<edVars, recVars, layout, twin>>


\* The segment the loop is at.
Segment(r) == r.sortedSegments[r.k]

\* The 'seeked' event of the re-capture loop: the video is at segment.start,
\* or at the end of the source, where the element has ended, for a start at
\* or beyond the end;
\* the encoder is resumed, the music started and video.play() called.
OnSeek(r) ==
  LET r1 == Goto([r EXCEPT
                    !.videoT = Min2(Segment(r).start, r.duration),
                    !.ended = (Segment(r).start >= r.duration),
                    !.recorder = IF @ = "paused" THEN "recording" ELSE @,
                    !.musicPlaying = (r.musicElement = "ready")], "play")
  IN [r1 EXCEPT !.heard = IF r1.recorder = "recording"
                          THEN @ \cup Audible(r1) ELSE @]

\* The 'seeked' event is delivered to the re-capture loop.
SeekSettled ==
  /\ At(rn) = "seek"
  /\ rn' = OnSeek(rn)
  /\ UNCHANGED <<edVars, recVars, layout, twin>>

\* The promise of video.play() settles.  play() on an element that has ended
\* starts over from the beginning of the source.  A rejection lands in the
\* catch block.
AfterPlay(r, ok) ==
  IF ok THEN Goto([r EXCEPT !.paused = FALSE,
                            !.videoT = IF r.ended THEN 0 ELSE @,
                            !.ended = FALSE], "watch")
  ELSE CatchBlock(r, "play")

\* await video.play() returns or throws.
PlayResolved(ok) ==
  /\ At(rn) = "play"
  /\ rn' = AfterPlay(rn, ok)
  /\ UNCHANGED <<edVars, recVars, layout, twin>>

\* Playback moves on by one tick of source time; at the end of the source
\* the element ends and pauses.  What is on the canvas and at the
\* destination node is taken in by a recording encoder.
Played(r) ==
  LET rec == r.recorder = "recording"
  IN [r EXCEPT
        !.videoT = @ + 1,
        !.ended = (r.videoT + 1 = r.duration),
        !.paused = (r.videoT + 1 = r.duration),
        !.recorded = IF rec THEN @ + 1 ELSE @,
        !.outside = IF rec /\ ~Retained(r.sortedSegments, r.videoT)
                    THEN @ + 1 ELSE @,
        !.heard = IF rec THEN @ \cup Audible(r) ELSE @]

\* The source is playing in the re-capture loop and has not reached its end.
Playing(r) == At(r) = "watch" /\ ~r.paused /\ r.videoT < r.duration

\* One tick of playback.
Advance ==
  /\ Playing(rn)
  /\ rn' = Played(rn)
  /\ UNCHANGED <<edVars, recVars, layout, twin>>

\* The value checkTime reports while the segment is playing.
WatchProgress(r) ==
  LET num == r.processedDuration + (r.videoT - Segment(r).start)
  IN IF r.impl = "native" THEN Min2(99 * r.totalDuration, 100 * num)
     ELSE IF r.format = "gif" THEN 50 * num
     ELSE 100 * num

\* checkTime waiting for video.currentTime >= segment.end alone.
CheckTimeEndOnly(r) ==
  IF r.videoT >= Segment(r).end
  THEN EnterSegment(
         [r EXCEPT !.paused = TRUE,
                   !.processedDuration =
                      @ + Segment(r).end - Segment(r).start],
         r.k + 1)
  ELSE OnProgress(r, WatchProgress(r))

\* checkTime, the 'timeupdate' listener of the re-capture loop, and, when it
\* resolves, video.pause(), the bookkeeping and the head of the next
\* iteration.
CheckTime(r) ==
  IF r.videoT >= Segment(r).end \/ r.paused \/ r.ended
  THEN EnterSegment(
         [r EXCEPT !.paused = TRUE,
                   !.processedDuration =
                      @ + Segment(r).end - Segment(r).start],
         r.k + 1)
  ELSE OnProgress(r, WatchProgress(r))

\* A 'timeupdate' event is delivered to the re-capture loop.
TimeUpdate ==
  /\ At(rn) = "watch"
  /\ rn' = CheckTime(rn)
  /\ UNCHANGED <<edVars, recVars, layout, twin>>

\* Lines 258-260 of videoProcessor.ts and 214-216 of part_005: the audio
\* context is closed, the URL of the source revoked, and the URL of the
\* music when musicElement is not null.
Cleanup(r) ==
  [r EXCEPT !.videoUrl = "revoked",
            !.musicUrl = IF r.musicElement # "null" /\ @ = "live"
                         THEN "revoked" ELSE @,
            !.audio = IF @ = "open" THEN "closed" ELSE @]

\* recorder.onstop, with the stop event taken off the queue.
\* videoProcessor.ts cleans up and resolves with the blob; part_005 resolves
\* the intermediate promise, and when that settles the call it cleans up and
\* returns the blob after onProgress(1), or goes on to load FFmpeg for a GIF.
OnStopped(r) ==
  LET r1 == [r EXCEPT !.stopEvt = FALSE]
  IN IF r.impl = "native" THEN Resolve(Cleanup(r1))
     ELSE IF r.settled # "none" THEN r1
     ELSE IF r.format # "gif"
     THEN Resolve(OnProgress(Cleanup(r1), 100 * r.totalDuration))
     ELSE [Cleanup(r1) EXCEPT !.pc = "ffLoad"]

\* The stop event queued by recorder.stop() is delivered.
RecorderStopped ==
  /\ rn.stopEvt
  /\ rn' = OnStopped(rn)
  /\ UNCHANGED <<edVars, recVars, layout, twin>>

\* The encoder fails while the loop runs.  The user agent makes it inactive
\* and fires error and stop one after the other: recorder.onerror rejects
\* the promise, recorder.onstop runs behind it, and the segment loop goes on.
OnError(r) ==
  OnStopped([Reject([r EXCEPT !.recorder = "inactive"], "encoder")
               EXCEPT !.after = r.pc])

\* The encoder is active and the segment loop is running.
CanFail(r) ==
  r.pc \in {"seek", "play", "watch"} /\ r.recorder \in {"recording", "paused"}

\* The encoder fails.
RecorderError ==
  /\ CanFail(rn)
  /\ rn' = OnError(rn)
  /\ UNCHANGED <<edVars, recVars, layout, twin>>

\* The awaited FFmpeg steps of part_005 and the progress reported after each.
FFSteps == <<"ffLoad", "ffWrite", "ffPalette", "ffGif", "ffRead">>
FFProgress == [ffLoad |-> 60, ffWrite |-> 70, ffPalette |-> 80, ffGif |-> 90,
               ffRead |-> 100]
FFNext == [ffLoad |-> "ffWrite", ffWrite |-> "ffPalette", ffPalette |-> "ffGif",
           ffGif |-> "ffRead", ffRead |-> "done"]

\* loadFFmpeg, writeFile, the two exec calls, readFile with the deletes: the
\* step the conversion is at settles.
FFStep(ok) ==
  /\ rn.pc \in {FFSteps[i] : i \in DOMAIN FFSteps}
  /\ rn' = IF ~ok THEN Reject(rn, "ffmpeg")
           ELSE LET r1 == OnProgress(rn, FFProgress[rn.pc] * rn.totalDuration)
                IN IF FFNext[rn.pc] = "done" THEN Resolve(r1)
                   ELSE [r1 EXCEPT !.pc = FFNext[rn.pc]]
  /\ UNCHANGED <<edVars, recVars, layout, twin>>

\* Line 208: the delay given to gif.addFrame, (1000 / fps) / playbackSpeed,
\* in hundredths of a tick.
GifDelay(r) == (100 * 100 * FrameInterval) \div r.playbackSpeed

\* The 'seeked' event of the GIF loop of videoProcessor.ts: the frame is
\* drawn and added, progress is reported, and the loop steps on.
GifSeeked ==
  /\ rn.pc = "gifSeek"
  /\ LET seg == Segment(rn)
         num == rn.processedDuration + (rn.currentTime - seg.start)
         r1 == [OnProgress(rn, 80 * num) EXCEPT
                  !.videoT = Min2(rn.currentTime, rn.duration),
                  !.frames = @ + 1,
                  !.shown = @ + GifDelay(rn),
                  !.currentTime =
                     @ + (FrameInterval * rn.playbackSpeed) \div 100]
     IN rn' = IF r1.currentTime < seg.end THEN r1
              ELSE GifSegment([r1 EXCEPT !.processedDuration =
                                 @ + seg.end - seg.start], rn.k + 1)
  /\ UNCHANGED <<edVars, recVars, layout, twin>>

\* gif.on('finished'): the promise resolves with the GIF.
GifFinished ==
  /\ rn.pc = "gifEncode"
  /\ rn' = Resolve(rn)
  /\ UNCHANGED <<edVars, recVars, layout, twin>>

\* The segments of a source of MaxDuration ticks.
ClipSegments ==
  UNION {{Seg(s * (MaxDuration + 1) + e, s, e) : e \in (s + 1)..MaxDuration} :
         s \in 0..(MaxDuration - 1)}

\* The lists of at most MaxSplits + 1 different segments, in any order.
SegmentLists ==
  UNION {{l \in [1..n -> ClipSegments] :
            \A i \in 1..n, j \in 1..n : i # j => l[i] # l[j]} :
         n \in 0..(MaxSplits + 1)}

\* options.segments: missing, or one of the lists.
SegmentOptions ==
  {[given |-> FALSE, list |-> <<>>]}
    \cup {[given |-> TRUE, list |-> l] : l \in SegmentLists}

\* options.musicVolume
MusicVolumes == {50}

\* options.layout as handleExport passes it for zoom 1: the whole frame.
IdentityLayout ==
  [given |-> TRUE,
   sourceRect |-> [x |-> 0, y |-> 0, width |-> VideoWidth,
                   height |-> VideoHeight]]

NextRender ==
  \/ /\ rn.pc = "idle"
     /\ \E impl \in Renderers, format \in Formats, o \in SegmentOptions,
           vv \in Volumes, mv \in MusicVolumes, speed \in Speeds,
           music \in BOOLEAN, ctxOk \in BOOLEAN :
          ProcessVideo(impl, format, o, IdentityLayout, vv, mv, speed, music,
                       ctxOk)
  \/ \E ok \in BOOLEAN : VideoLoaded(ok)
  \/ \E ok \in BOOLEAN : MusicLoaded(ok)
  \/ SeekSettled
  \/ \E ok \in BOOLEAN : PlayResolved(ok)
  \/ Advance
  \/ TimeUpdate
  \/ RecorderStopped
  \/ RecorderError
  \/ \E ok \in BOOLEAN : FFStep(ok)
  \/ GifSeeked
  \/ GifFinished

\* Segments of no length: end = start.
EmptyClips == {Seg(100 + s, s, s) : s \in 0..MaxDuration}

\* The lists of at most MaxSplits + 1 different segments of no length.
EmptyClipLists ==
  UNION {{l \in [1..n -> EmptyClips] :
            \A i \in 1..n, j \in 1..n : i # j => l[i] # l[j]} :
         n \in 1..(MaxSplits + 1)}

\* options.segments for a caller other than the editor: the whole source, a
\* list of segments of no length, no list.
AnySegmentOptions ==
  {[given |-> FALSE, list |-> <<>>],
   [given |-> TRUE, list |-> <<Seg(1, 0, MaxDuration)>>]}
    \cup {[given |-> TRUE, list |-> l] : l \in EmptyClipLists}

\* layout.sourceRect for a caller other than the editor: rectangles of
\* positive size that start left of the frame, inside it, or reach over
\* its right edge.
AnyRects ==
  {[x |-> x, y |-> 0, width |-> w, height |-> VideoHeight] :
     x \in (0 - 1)..1, w \in {VideoWidth - 1, VideoWidth}}

\* options.layout: missing, or with one of the rectangles.
AnyLayouts ==
  {[given |-> FALSE]} \cup {[given |-> TRUE, sourceRect |-> r] : r \in AnyRects}

\* processVideo called with any options of its parameter types.
NextRenderAny ==
  \/ /\ rn.pc = "idle"
     /\ \E impl \in Renderers, format \in Formats, o \in AnySegmentOptions,
           lay \in AnyLayouts, music \in BOOLEAN, ctxOk \in BOOLEAN :
          ProcessVideo(impl, format, o, lay, 100, 50, 100, music, ctxOk)
  \/ \E ok \in BOOLEAN : VideoLoaded(ok)
  \/ \E ok \in BOOLEAN : MusicLoaded(ok)
  \/ SeekSettled
  \/ \E ok \in BOOLEAN : PlayResolved(ok)
  \/ Advance
  \/ TimeUpdate
  \/ RecorderStopped
  \/ RecorderError
  \/ \E ok \in BOOLEAN : FFStep(ok)
  \/ GifSeeked
  \/ GifFinished

\* Segments of positive length that start at or beyond the end of the source
\* or reach beyond it.
LateClips ==
  UNION {{Seg(200 + s * (MaxDuration + 3) + e, s, e) :
            e \in Max2(s, MaxDuration) + 1 .. MaxDuration + 2} :
         s \in 0..(MaxDuration + 1)}

\* The non-empty lists of at most MaxSplits + 1 different segments of
\* positive length, inside the source or not, in any order.
PositiveLists ==
  UNION {{l \in [1..n -> ClipSegments \cup LateClips] :
            \A i \in 1..n, j \in 1..n : i # j => l[i] # l[j]} :
         n \in 1..(MaxSplits + 1)}

\* A call of either renderer on segments of positive length.
StartRender ==
  /\ rn.pc = "idle"
  /\ \E impl \in Renderers, format \in Formats, l \in PositiveLists,
        speed \in Speeds, music \in BOOLEAN :
       ProcessVideo(impl, format, [given |-> TRUE, list |-> l],
                    IdentityLayout, 100, 50, speed, music, TRUE)

\* The events a call waits for: each of them is delivered, with one of its
\* outcomes, when the call keeps waiting for it.
MediaEvents ==
  /\ WF_vars(\E ok \in BOOLEAN : VideoLoaded(ok))
  /\ WF_vars(\E ok \in BOOLEAN : MusicLoaded(ok))
  /\ WF_vars(SeekSettled)
  /\ WF_vars(\E ok \in BOOLEAN : PlayResolved(ok))
  /\ WF_vars(Advance)
  /\ WF_vars(TimeUpdate)
  /\ WF_vars(RecorderStopped)
  /\ WF_vars(\E ok \in BOOLEAN : FFStep(ok))
  /\ WF_vars(GifSeeked)
  /\ WF_vars(GifFinished)

NextSettle ==
  \/ StartRender
  \/ \E ok \in BOOLEAN : VideoLoaded(ok)
  \/ \E ok \in BOOLEAN : MusicLoaded(ok)
  \/ SeekSettled
  \/ \E ok \in BOOLEAN : PlayResolved(ok)
  \/ Advance
  \/ TimeUpdate
  \/ RecorderStopped
  \/ RecorderError
  \/ \E ok \in BOOLEAN : FFStep(ok)
  \/ GifSeeked
  \/ GifFinished

\* The segments of a source of MaxGifDuration ticks.
GifClips ==
  UNION {{Seg(300 + s * (MaxGifDuration + 1) + e, s, e) :
            e \in (s + 1)..MaxGifDuration} :
         s \in 0..(MaxGifDuration - 1)}

\* The non-empty lists of at most MaxSplits + 1 of these segments that lie
\* one behind the other, in any order.
GifLists ==
  UNION {{l \in [1..n -> GifClips] :
            \A i \in 1..n, j \in 1..n :
              i # j => l[i].end <= l[j].start \/ l[j].end <= l[i].start} :
         n \in 1..(MaxSplits + 1)}

\* The playback speeds of the editor's three buttons.
GifSpeeds == {50, 100, 200}

\* A GIF export of videoProcessor.ts on a source of MaxGifDuration ticks.
StartGif ==
  /\ rn.pc = "idle"
  /\ \E l \in GifLists, speed \in GifSpeeds :
       rn' = [Called(rn, "native", "gif", [given |-> TRUE, list |-> l],
                     IdentityLayout, 100, 50, speed, FALSE, TRUE)
                EXCEPT !.duration = MaxGifDuration]
  /\ UNCHANGED <<edVars, recVars, layout, twin>>

NextGif ==
  \/ StartGif
  \/ \E ok \in BOOLEAN : VideoLoaded(ok)
  \/ GifSeeked
  \/ GifFinished

\* The formats for which both renderers return the re-captured video.
VideoFormats == Formats \ {"gif"}

\* One event of the browser delivered to a call of each renderer that were
\* given the same options: can and then are the test and the result for the
\* call of videoProcessor.ts, canTwin and thenTwin for the call of part_005.
\* A call that is not waiting for the event stays as it is.
Lockstep(can, then, canTwin, thenTwin) ==
  /\ can \/ canTwin
  /\ rn' = IF can THEN then ELSE rn
  /\ twin' = IF canTwin THEN thenTwin ELSE twin
  /\ UNCHANGED <<edVars, recVars, layout>>

\* Both renderers called with the same options for a video format.
BothProcessVideo(format, o, vv, mv, speed, music, ctxOk) ==
  Lockstep(rn.pc = "idle",
           Called(rn, "native", format, o, IdentityLayout, vv, mv, speed,
                  music, ctxOk),
           twin.pc = "idle",
           Called(twin, "ffmpeg", format, o, IdentityLayout, vv, mv, speed,
                  music, ctxOk))

BothVideoLoaded(ok) ==
  Lockstep(rn.pc = "loadVideo", OnVideoLoaded(rn, ok),
           twin.pc = "loadVideo", OnVideoLoaded(twin, ok))

BothMusicLoaded(ok) ==
  Lockstep(rn.pc = "loadMusic", OnMusicLoaded(rn, ok),
           twin.pc = "loadMusic", OnMusicLoaded(twin, ok))

BothSeekSettled ==
  Lockstep(At(rn) = "seek", OnSeek(rn), At(twin) = "seek", OnSeek(twin))

BothPlayResolved(ok) ==
  Lockstep(At(rn) = "play", AfterPlay(rn, ok),
           At(twin) = "play", AfterPlay(twin, ok))

BothAdvance ==
  Lockstep(Playing(rn), Played(rn), Playing(twin), Played(twin))

BothTimeUpdate ==
  Lockstep(At(rn) = "watch", CheckTime(rn),
           At(twin) = "watch", CheckTime(twin))

BothRecorderStopped ==
  Lockstep(rn.stopEvt, OnStopped(rn), twin.stopEvt, OnStopped(twin))

BothRecorderError ==
  Lockstep(CanFail(rn), OnError(rn), CanFail(twin), OnError(twin))

NextBoth ==
  \/ \E format \in VideoFormats, o \in SegmentOptions, vv \in Volumes,
        mv \in MusicVolumes, speed \in Speeds, music \in BOOLEAN,
        ctxOk \in BOOLEAN :
       BothProcessVideo(format, o, vv, mv, speed, music, ctxOk)
  \/ \E ok \in BOOLEAN : BothVideoLoaded(ok)
  \/ \E ok \in BOOLEAN : BothMusicLoaded(ok)
  \/ BothSeekSettled
  \/ \E ok \in BOOLEAN : BothPlayResolved(ok)
  \/ BothAdvance
  \/ BothTimeUpdate
  \/ BothRecorderStopped
  \/ BothRecorderError

Init == InitEditor /\ InitRecorder /\ InitLayout /\ InitRender
SpecRenderAny == Init /\ [][NextRenderAny]_vars
SpecLayout == Init /\ [][NextLayout]_vars
SpecRender == Init /\ [][NextRender]_vars
SpecBoth == Init /\ [][NextBoth]_vars
SpecGif == Init /\ [][NextGif]_vars
SpecSettle == Init /\ [][NextSettle]_vars /\ MediaEvents
SpecRecorder == Init /\ [][NextRecorder]_vars
SpecTimeline == Init /\ [][NextTimeline]_vars
SpecTrim == Init /\ [][NextTrim]_vars
SpecCut == Init /\ [][NextCut]_vars
SpecEdit == Init /\ [][NextEdit]_vars
SpecCapture == Init /\ [][NextCapture]_vars
SpecExport == Init /\ [][NextExport]_vars

\* ================================================================ claims

\* C3: after any sequence of split, trim and delete the segment list is
\* sorted ascending by start and consecutive segments do not overlap
\* (a.end <= b.start).
C3_SortedNonOverlapping ==
  \A i \in 1..(Len(segments) - 1) :
    /\ segments[i].start <= segments[i + 1].start
    /\ segments[i].end <= segments[i + 1].start

\* The time t lies strictly inside some segment (not in a gap, not on a boundary).
InsideSomeSegment(segs, t) ==
  \E i \in DOMAIN segs : segs[i].start < t /\ t < segs[i].end

\* C4: once the initial segment exists the segment count never reaches zero,
\* and delete(id) on the only remaining segment leaves the list unchanged.
C4_NeverEmpty ==
  /\ [](duration > 0 => Len(segments) >= 1)
  /\ [][\A id \in Ids(segments) :
          (Len(segments) = 1 /\ HandleDeleteSegment(id))
             => segments' = segments]_vars

\* C4 witness: delete was invoked on the only segment and ignored.
C4_Witness == last = "delete_noop" /\ Len(segments) = 1 /\ duration > 0

\* C5: every segment satisfies 0 <= start < end <= total duration.
C5_WithinDuration ==
  \A i \in DOMAIN segments :
    /\ 0 <= segments[i].start
    /\ segments[i].start < segments[i].end
    /\ segments[i].end <= duration

\* C6: split(t) with t inside no segment (in a gap, before the first segment,
\* at or after an end, exactly on a start) leaves the segment list unchanged.
C6_SplitOutsideNoop ==
  [][(~InsideSomeSegment(segments, currentTime) /\ HandleSplit)
       => segments' = segments]_vars

\* C6 witness: a split was attempted with the playhead on the boundary left
\* by an earlier cut, and ignored.
C6_Witness ==
  /\ last = "split_noop"
  /\ Len(segments) >= 2
  /\ \E i \in DOMAIN segments : segments[i].start = currentTime
  /\ ~InsideSomeSegment(segments, currentTime)

\* The edit is the identity: one segment spanning the whole source, clip
\* volume 1, speed 1, zoom 1, pan (0,0), no added audio.
IdentityEdit ==
  /\ Len(segments) = 1
  /\ segments[1].start = 0
  /\ segments[1].end = duration
  /\ params.videoVolume = 100
  /\ params.playbackSpeed = 100
  /\ params.zoom = 100
  /\ params.panX = 0
  /\ params.panY = 0
  /\ params.addedAudioBlob = "null"
  /\ params.addedAudioUrl = "null"

\* C10: exporting the identity edit to webm skips rendering: processVideo is
\* not invoked and the output is the original blob.
C10_IdentityExportIsOriginal ==
  (last = "export" /\ exportOut.format = "webm" /\ IdentityEdit)
     => (~exportOut.processVideo /\ exportOut.blob = "original")
\* ----------------------------------------------------- useScreenRecorder

\* C1: a startRecording call made while an earlier call is still awaiting
\* (stream acquisition, background-image load, compositor warm-up) is a
\* no-op: no state of the recorder changes and no further session begins.
C1_SecondStartNoop ==
  [][\A o \in OptionSets :
       ((\E s \in Sessions : sess[s].pc \in Pending) /\ StartRecording(o))
          => UNCHANGED recVars]_vars

\* The startRecording calls that are awaiting.
InFlight == {s \in Sessions : sess[s].pc \in Pending}

\* The sessions holding a live primary stream and a recording encoder.
Active ==
  {s \in Sessions : sess[s].stream = "live" /\ sess[s].rec = "recording"}

\* C2: in every reachable state at most one start is in flight and at most
\* one session (live stream plus encoder) is active.
C2_AtMostOneSession ==
  /\ Cardinality(InFlight) <= 1
  /\ Cardinality(Active) <= 1

\* The chunk lists the stop handler can be handed, zero-sized buffers included.
ChunkLists ==
  {<<>>} \cup {<<[from |-> 1, n |-> 1, size |-> z]>> : z \in Sizes}
         \cup {<<[from |-> 1, n |-> 1, size |-> y],
                  [from |-> 1, n |-> 2, size |-> z]>> : y \in Sizes, z \in Sizes}

\* The stop handler ran its failure return with message msg: status idle,
\* nothing published.
StopFailsWith(msg) ==
  /\ error' = msg
  /\ status' = "idle"
  /\ mediaBlobUrl' = mediaBlobUrl
  /\ currentBlob' = currentBlob

\* C7: a stop event with zero chunks reports "No data captured" and status
\* idle; chunks assembling to size zero report "Empty video data" and status
\* idle; in neither case is the status recorded or a blob/URL published.
C7_StopWithoutData ==
  /\ [](\A c \in ChunkLists :
         /\ Len(c) = 0 => FinishKind(c) = "noData"
         /\ (Len(c) > 0 /\ BlobSize(c) = 0) => FinishKind(c) = "empty")
  /\ [][\A s \in Sessions :
          OnStop(s) =>
            /\ Len(chunksRef) = 0 => StopFailsWith(NoDataCaptured)
            /\ (Len(chunksRef) > 0 /\ BlobSize(chunksRef) = 0)
                  => StopFailsWith(EmptyVideoData)]_vars

\* C7 witness: a session whose encoder stopped with no chunk collected.
C7_Witness ==
  /\ \E s \in Sessions : sess[s].outcome = "noData" /\ sess[s].rec = "inactive"
  /\ error = NoDataCaptured
  /\ status = "idle"
  /\ mediaBlobUrl = "null"
  /\ chunksRef = <<>>

\* How a session ends in error.
ErrorOutcomes == {"startFailed", "encoderError", "noData", "empty"}

\* Everything session s acquired has been released.
Released(s) ==
  /\ sess[s].stream # "live"
  /\ sess[s].mic # "live"
  /\ sess[s].ctx # "open"
  /\ sess[s].loop # "running"
  /\ canvasRef # s
  /\ videoElementRef # s

\* C8: when a session has ended in error and status is idle with the error
\* message set, every resource the session acquired has been released.
C8_ErrorReleasesAll ==
  \A s \in Sessions :
    (sess[s].outcome \in ErrorOutcomes /\ status = "idle" /\ error # "null")
       => Released(s)

\* The messages of a rejected background image load.
ImageErrors == {ImageLoadFailed,
                ImageTainted}

\* C9: a session asked for a background image has an encoder only once the
\* image has loaded, decoded and passed the taint check; a load, decode or
\* taint failure aborts the start with status idle and a descriptive error,
\* and no encoder is started.
C9_ImageBeforeRecording ==
  /\ [](\A s \in Sessions :
         (sess[s].opts.bg = "image" /\ sess[s].rec # "none")
            => sess[s].img = "loaded")
  /\ [][\A s \in Sessions, res \in ImageResults \ {"ok"} :
          BgImage(s, res) =>
            /\ status' = "idle"
            /\ error' \in ImageErrors
            /\ sess'[s].pc = "failed"
            /\ sess'[s].rec = "none"
            /\ mediaRecorderRef' = mediaRecorderRef]_vars

\* C9 witness: a start aborted on a tainted background image.
C9_Witness ==
  /\ \E s \in Sessions :
       /\ sess[s].opts.bg = "image"
       /\ sess[s].outcome = "startFailed"
       /\ sess[s].rec = "none"
  /\ error = ImageTainted
  /\ status = "idle"

\* ------------------------------------------------------ editor, continued

\* C15: every trim leaves the trimmed segment at least 0.1 s wide, whatever
\* the segment was before the drag: narrower than 0.1 s after a split next to
\* a boundary, or within 0.1 s of time 0 or of the duration.
C15_TrimKeepsMinWidth ==
  [][\A dt \in Deltas :
       (drag.active /\ OnMouseMove(dt)) =>
          \A i \in DOMAIN segments' :
            segments'[i].id = drag.id
               => segments'[i].end - segments'[i].start >= MinWidth]_vars

\* The time t lies in [start, end) of some segment.
InSomeSegment(segs, t) ==
  \E i \in DOMAIN segs : segs[i].start <= t /\ t < segs[i].end

\* The starts of the segments that begin after t.
LaterStarts(segs, t) ==
  {segs[i].start : i \in {j \in DOMAIN segs : segs[j].start > t}}

\* The least element of a non-empty set of times.
Least(S) == CHOOSE x \in S : \A y \in S : x <= y

StopOutcomes == {"noData", "empty", "recorded"}

\* C16: stopRecording with no encoder or with an inactive encoder changes no
\* state and queues no callback; on a recording encoder it stops the encoder
\* once and queues one stop event, so that a second call right after it is a
\* no-op; and the stop handler of an encoder runs at most once.
C16_StopIdempotent ==
  /\ [][((mediaRecorderRef = 0 \/ sess[mediaRecorderRef].rec = "inactive")
           /\ StopRecording) => UNCHANGED recVars]_vars
  /\ [][((mediaRecorderRef # 0 /\ sess[mediaRecorderRef].rec = "recording")
           /\ StopRecording) =>
            /\ sess'[mediaRecorderRef].rec = "inactive"
            /\ sess'[mediaRecorderRef].stopEvt
            /\ ~sess[mediaRecorderRef].stopEvt
            /\ mediaRecorderRef' = mediaRecorderRef
            /\ \A s \in Sessions \ {mediaRecorderRef} : sess'[s] = sess[s]]_vars
  /\ [][\A s \in Sessions :
          (sess[s].stopEvt /\ OnStop(s)) =>
             /\ sess[s].outcome \notin StopOutcomes
             /\ sess'[s].outcome \in StopOutcomes
             /\ ~sess'[s].stopEvt]_vars

\* C16 witness: stopRecording has stopped a recording encoder whose stream is
\* still live; the stop event is queued and a second call finds the encoder
\* inactive.
C16_Witness ==
  /\ mediaRecorderRef # 0
  /\ sess[mediaRecorderRef].rec = "inactive"
  /\ sess[mediaRecorderRef].stopEvt
  /\ sess[mediaRecorderRef].stream = "live"
  /\ sess[mediaRecorderRef].outcome = "none"
  /\ status = "recording"

\* The sessions whose encoder is collecting: recording, or stopped with its
\* stop handler still to run.
Collecting == {s \in Sessions : sess[s].rec = "recording" \/ sess[s].stopEvt}

\* a is an initial part of b.
IsPrefix(a, b) == Len(a) <= Len(b) /\ SubSeq(b, 1, Len(a)) = a

\* C17: during a session the chunk sequence is the sequence of the non-empty
\* buffers its encoder delivered, in delivery order: a non-empty buffer is
\* appended at the end, an empty one is dropped, nothing is reordered or
\* removed, and the recording assembled by the stop handler is the
\* concatenation of that sequence.
C17_ChunksInDeliveryOrder ==
  /\ [][\A s \in Sessions, size \in Sizes :
          ((sess[s].rec = "recording" \/ sess[s].stopEvt)
             /\ DataAvailable(s, size)) =>
            /\ chunksRef' =
                 IF size > 0
                 THEN Append(chunksRef, [from |-> s, n |-> Len(chunksRef) + 1,
                                         size |-> size])
                 ELSE chunksRef
            /\ \A i \in DOMAIN chunksRef' : chunksRef'[i].from = s]_vars
  /\ [][Collecting # {} => IsPrefix(chunksRef, chunksRef')]_vars
  /\ [][\A s \in Sessions :
          (sess[s].stopEvt /\ OnStop(s) /\ FinishKind(chunksRef) = "recorded")
            => /\ currentBlob'.chunks = chunksRef
               /\ \A i \in DOMAIN chunksRef : chunksRef[i].from = s]_vars

\* ------------------------------------------------------------- the layout

\* The length v, held in units of 1 / LayoutUnit(zoom) pixel, is an even
\* whole number of pixels.
EvenPixels(v, zoom) == v % (2 * LayoutUnit(zoom)) = 0

\* C14: for every zoom >= 1, pan in [-1, 1] and source frame size, the x, y,
\* width and height of the sourceRect are even integers and the rectangle
\* lies inside the source frame.
C14_SourceRectEvenInside ==
  layout.set =>
    LET r == layout.sourceRect
        K == LayoutUnit(layout.zoom)
    IN /\ EvenPixels(r.x, layout.zoom)
       /\ EvenPixels(r.y, layout.zoom)
       /\ EvenPixels(r.width, layout.zoom)
       /\ EvenPixels(r.height, layout.zoom)
       /\ 0 <= r.x /\ r.x + r.width <= layout.vidW * K
       /\ 0 <= r.y /\ r.y + r.height <= layout.vidH * K

\* ------------------------------------------------------------ processVideo

\* C11: processVideo called with a missing or empty segment list fails with
\* the no-segments error before any pipeline work: no canvas, video element,
\* audio context or encoder is created and no progress is reported, in both
\* renderers.
C11_EmptySegmentsRejected ==
  /\ [](rn.error = NoSegmentsSelected =>
          /\ rn.pc = "failed"
          /\ rn.made = {}
          /\ rn.recorder = "none"
          /\ ~rn.progress.any)
  /\ [][rn.pc = "idle" =>
          \A o \in {x \in SegmentOptions : ~x.given \/ x.list = <<>>},
             impl \in Renderers, format \in Formats,
             vv \in Volumes, mv \in MusicVolumes, speed \in Speeds,
             music \in BOOLEAN, ctxOk \in BOOLEAN :
            ProcessVideo(impl, format, o, IdentityLayout, vv, mv, speed,
                         music, ctxOk)
              => /\ rn'.pc = "failed"
                 /\ rn'.error = NoSegmentsSelected
                 /\ rn'.made = {}
                 /\ rn'.recorder = "none"
                 /\ ~rn'.progress.any]_vars

\* C11 witness: the FFmpeg renderer was called for a GIF without segments
\* and failed with nothing created.
C11_Witness ==
  /\ rn.pc = "failed"
  /\ rn.impl = "ffmpeg"
  /\ rn.format = "gif"
  /\ rn.error = NoSegmentsSelected
  /\ rn.made = {}

\* C12: for every successful render, in every format and in both renderers,
\* the values handed to onProgress are non-decreasing and lie in [0, 1], at
\* least one value is delivered, and the last one is exactly 1.
C12_ProgressEndsAtOne ==
  rn.pc = "done" =>
    /\ rn.progress.any
    /\ rn.progress.mono
    /\ rn.progress.inRange
    /\ rn.progress.last = 100 * rn.totalDuration

\* A render through the encoder (every render but the GIF of
\* videoProcessor.ts) has resolved.
Recaptured == rn.pc = "done" /\ "encoder" \in rn.made

\* C13: at speed 1 the output holds exactly the retained intervals and
\* nothing from the gaps: the source time the encoder took in while recording
\* equals the sum of end - start over the segments.
C13_RecordsExactlySegments ==
  (Recaptured /\ rn.playbackSpeed = 100) =>
     /\ rn.recorded = rn.totalDuration
     /\ rn.outside = 0

\* The audio sources that reached the encoder with a gain above zero.
Heard == {h \in rn.heard : h[2] > 0}

\* C19: with clip volume 0 and a secondary audio asset present, the audio of
\* the rendered video is the secondary asset alone, scaled by the music gain
\* and as long as the total edited duration; the clip contributes no audio.
C19_MusicAloneWhenClipMuted ==
  (Recaptured /\ rn.format # "gif" /\ rn.videoVolume = 0
     /\ rn.musicElement = "ready") =>
       /\ Heard = {<<"music", rn.musicVolume>>}
       /\ rn.recorded = rn.totalDuration

\* The loop of the re-capture renderer is running.
InLoop == rn.pc \in {"seek", "play", "watch"}

\* C20: the re-capture renderer takes the segments one at a time in
\* ascending start order, and per segment: encoder paused, seek to
\* segment.start issued, seek settled, encoder resumed, playback started,
\* playback at segment.end (or the source paused or ended), playback paused.
\* The encoder is never recording while a seek is pending, and no frame from
\* outside a retained segment is encoded.
C20_SegmentStepsInOrder ==
  /\ [](rn.pc = "seek" => (rn.recorder # "recording" /\ rn.paused))
  /\ [](rn.outside = 0)
  /\ [][(rn.pc = "seek" /\ rn'.pc \notin {"seek", "failed"}) =>
          /\ rn'.pc = "play"
          /\ rn'.k = rn.k
          /\ rn'.videoT = rn.sortedSegments[rn.k].start
          /\ rn'.recorder = "recording"
          /\ rn'.paused]_vars
  /\ [][(rn.pc = "play" /\ rn'.pc \notin {"play", "failed"}) =>
          /\ rn'.pc = "watch"
          /\ rn'.k = rn.k
          /\ ~rn'.paused
          /\ rn'.recorder = "recording"]_vars
  /\ [][(rn.pc = "watch" /\ rn'.pc \notin {"watch", "failed"}) =>
          /\ rn.videoT >= rn.sortedSegments[rn.k].end \/ rn.paused \/ rn.ended
          /\ rn'.paused
          /\ rn'.recorder # "recording"
          /\ \/ /\ rn'.pc = "seek"
                /\ rn'.k = rn.k + 1
                /\ rn.sortedSegments[rn.k].start
                     <= rn.sortedSegments[rn.k + 1].start
             \/ /\ rn'.pc = "stopping"
                /\ rn.k = Len(rn.sortedSegments)]_vars
  /\ [][(~InLoop /\ rn'.pc \in {"seek", "play", "watch"}) =>
          (rn'.pc = "seek" /\ rn'.k = 1 /\ rn'.recorder = "paused")]_vars

\* ------------------------------------------- useScreenRecorder, continued

\* C21: once the encoder of a session has failed (status idle, the encoding
\* error message, guard released), the stop event delivered afterwards
\* neither publishes a blob or a URL nor changes the status, and the session
\* never ends as recorded.
C21_ErrorIsFinal ==
  /\ [][\A s \in Sessions :
          EncoderError(s) =>
            /\ status' = "idle"
            /\ error' = EncodingError
            /\ ~guard']_vars
  /\ [][\A s \in Sessions :
          (sess[s].outcome = "encoderError" /\ OnStop(s)) =>
            /\ status' = status
            /\ mediaBlobUrl' = mediaBlobUrl
            /\ currentBlob' = currentBlob
            /\ sess'[s].outcome # "recorded"]_vars

\* The sessions recording the compositor surface.
Compositing ==
  {s \in Sessions : sess[s].opts.bg # "none" /\ sess[s].rec = "recording"}

\* C22: while a session with a background is recording, its draw loop is
\* scheduled: every run of the draw callback re-arms it, and only a teardown
\* (stop, reset, error) cancels it, never a state update or a render during
\* the recording.
C22_DrawLoopKeepsRunning ==
  /\ [](\A s \in Compositing : sess[s].loop = "running")
  /\ [][\A s \in Compositing :
          DrawTick(s) =>
            (sess'[s].loop = "running" /\ animationFrameRef' = s)]_vars

\* The sessions that ended with a published recording.
Finished == {s \in Sessions : sess[s].outcome = "recorded"}

\* C23: when a recording finishes successfully, everything the session
\* holds is released in that step: the tracks of the primary stream and the
\* microphone stream are stopped, the audio-mix graph is closed, the draw
\* loop is cancelled, the compositor surface and the hidden video element
\* are dropped.  No state with status recorded, or idle after a reset, has
\* a finished session with some of them live.
C23_FinishReleasesAll ==
  /\ [][\A s \in Sessions :
          (OnStop(s) /\ sess'[s].outcome = "recorded") => Released(s)']_vars
  /\ [](\A s \in Finished : Released(s))

\* What stopRecording does to the encoder of session s, and nothing else.
StoppedAsByStopRecording(s) ==
  /\ sess'[s].rec = "inactive"
  /\ sess'[s].stopEvt
  /\ status' = status
  /\ error' = error
  /\ mediaBlobUrl' = mediaBlobUrl
  /\ currentBlob' = currentBlob
  /\ chunksRef' = chunksRef

\* The stop handler ends the session: recorded, or idle with its error.
FinishedOrFailed(s) ==
  \/ /\ sess'[s].outcome = "recorded"
     /\ status' = "recorded"
     /\ mediaBlobUrl' = "url"
  \/ /\ sess'[s].outcome \in {"noData", "empty"}
     /\ status' = "idle"
     /\ error' \in {NoDataCaptured, EmptyVideoData}

\* C24: when the primary video track ends while the encoder runs, the
\* encoder is stopped as stopRecording stops it and the same stop handler
\* ends the session, recorded or idle with an error when no data was
\* captured; when the encoder is already inactive the event changes nothing
\* but the track.
C24_TrackEndStops ==
  /\ [][\A s \in Sessions :
          (sess[s].rec = "recording" /\ TrackEnded(s))
             => StoppedAsByStopRecording(s)]_vars
  /\ [][\A s \in Sessions :
          (sess[s].rec = "inactive" /\ TrackEnded(s))
             => rs' = [rs EXCEPT !.sess[s].stream = "ended"]]_vars
  /\ [][\A s \in Sessions :
          (sess[s].stream = "ended" /\ sess[s].outcome = "none" /\ OnStop(s))
             => FinishedOrFailed(s)]_vars

\* C24 witness: a session whose track ended while recording and whose stop
\* handler then published the recording.
C24_Witness ==
  /\ \E s \in Sessions :
       /\ sess[s].stream = "ended"
       /\ sess[s].outcome = "recorded"
       /\ sess[s].rec = "inactive"
       /\ ~sess[s].stopEvt
  /\ status = "recorded"
  /\ mediaBlobUrl = "url"

\* The start of session s ended in the catch block with the message for err.
StartFailsWith(s, err) ==
  /\ status' = "idle"
  /\ error' = CatchMessage(err)
  /\ ~guard'
  /\ sess'[s].pc = "failed"
  /\ sess'[s].rec = "none"

\* C25: with audio requested, for the screen and for the camera, a failure of
\* the audio-inclusive request with a recoverable cause (NotFoundError,
\* InvalidStateError, TypeError) is followed by a video-only request, and
\* when that succeeds the session goes on with no error shown; every other
\* failure, and every failure when audio was not requested, ends the start
\* with status idle and the message for the error.
C25_AudioFallback ==
  /\ [][\A s \in Sessions, res \in MediaErrors, ok \in BOOLEAN :
          (sess[s].pc = "getMedia" /\ GetMedia(s, res, ok)) =>
             IF sess[s].opts.audio /\ res \in Recoverable
             THEN /\ sess'[s].pc = "getMediaFallback"
                  /\ error' = error
                  /\ status' = status
             ELSE StartFailsWith(s, res)]_vars
  /\ [][\A s \in Sessions, res \in {"ok"} \cup MediaErrors :
          (sess[s].pc = "getMediaFallback" /\ GetMediaFallback(s, res, TRUE))
             => IF res = "ok"
                THEN /\ sess'[s].stream = "live"
                     /\ sess'[s].outcome = "none"
                     /\ error' = error
                ELSE StartFailsWith(s, res)]_vars

\* ------------------------------------------------------ editor, continued

\* C30: a trim changes only the start and the end of the segment with the
\* given id: the list keeps its length and its order, every other segment
\* keeps its id, start and end, and no segment is merged with a neighbour.
C30_TrimTouchesOneSegment ==
  [][drag.active =>
       \A dt \in TrimDeltas :
         OnMouseMove(dt) =>
           /\ Len(segments') = Len(segments)
           /\ \A i \in DOMAIN segments :
                /\ segments'[i].id = segments[i].id
                /\ segments[i].id # drag.id => segments'[i] = segments[i]]_vars

\* ---------------------------------------------- processVideo, continued

\* The call has ended and nothing of it is left to run: no stop event is
\* queued and no segment loop is running behind a rejection.
RenderOver ==
  /\ rn.pc \in {"done", "failed"}
  /\ ~rn.stopEvt
  /\ rn.after = "none"

\* C26: after a render has completed or failed, in either renderer and for
\* every format, everything the renderer made is released: the object URLs
\* of the source video and of the music are revoked, the audio context is
\* closed, the draw loop is stopped and the encoder is inactive.
C26_RenderReleasesAll ==
  RenderOver =>
    /\ rn.videoUrl # "live"
    /\ rn.musicUrl # "live"
    /\ rn.audio # "open"
    /\ rn.drawing # "running"
    /\ rn.recorder \notin {"recording", "paused"}

\* A step of the call at which the render fails: the source does not load,
\* play() rejects, the encoder reports an error, an FFmpeg step rejects.
FailingStep ==
  \/ VideoLoaded(FALSE)
  \/ PlayResolved(FALSE)
  \/ RecorderError
  \/ FFStep(FALSE)

NothingToRender(segs) == Len(segs) > 0 /\ TotalDuration(segs) = 0

\* C28: a segment list whose total duration is zero is rejected before any
\* pipeline work: the call with such a list has failed, no encoder is started
\* for it and no progress value is reported.
C28_ZeroDurationRejected ==
  NothingToRender(rn.segments) =>
    /\ rn.pc = "failed"
    /\ rn.recorder = "none"
    /\ ~rn.progress.any

\* A frame has been drawn: the draw loop has run, or a GIF frame was taken.
FrameDrawn == rn.drawing # "none" \/ rn.frames > 0

\* C29: the rectangle of the source used for drawing lies inside the source
\* frame and the destination rectangle inside the output canvas, whatever
\* the layout handed to the call: values out of range are clamped before
\* the first frame is drawn.
C29_DrawRectsClamped ==
  FrameDrawn =>
    /\ 0 <= rn.sourceRect.x
    /\ 0 <= rn.sourceRect.y
    /\ rn.sourceRect.x + rn.sourceRect.width <= VideoWidth
    /\ rn.sourceRect.y + rn.sourceRect.height <= VideoHeight
    /\ 0 <= rn.drawn.x
    /\ 0 <= rn.drawn.y
    /\ rn.drawn.x + rn.drawn.width <= OutputWidth * DestUnit(rn.sourceRect)
    /\ rn.drawn.y + rn.drawn.height <= OutputHeight * DestUnit(rn.sourceRect)

\* ---- editor: cuts and ids ----

\* C31: split(t) with t strictly inside a segment [s, e) replaces that segment,
\* at the same list position, by the two contiguous segments [s, t) and
\* [t, e): the first keeps the original id, both have positive width, the
\* count grows by exactly one, all other segments are unchanged, and the total
\* retained duration is unchanged.
C31_SplitReplacesByTwo ==
  [][(InsideSomeSegment(segments, currentTime) /\ HandleSplitWithin(MaxCuts)) =>
       \E i \in DOMAIN segments :
         /\ segments[i].start < currentTime
         /\ currentTime < segments[i].end
         /\ Len(segments') = Len(segments) + 1
         /\ segments'[i] = Seg(segments[i].id, segments[i].start, currentTime)
         /\ segments'[i + 1].start = currentTime
         /\ segments'[i + 1].end = segments[i].end
         /\ segments'[i].start < segments'[i].end
         /\ segments'[i + 1].start < segments'[i + 1].end
         /\ \A j \in 1..(i - 1) : segments'[j] = segments[j]
         /\ \A j \in (i + 1)..Len(segments) : segments'[j + 1] = segments[j]
         /\ TotalDuration(segments') = TotalDuration(segments)]_vars

\* C31 witness: a list of two segments was cut again, in its first segment,
\* and the segment behind the cut one is still in place.
C31_Witness ==
  /\ last = "split"
  /\ Len(segments) = 3
  /\ segments[3].id = 2
  /\ segments[2].id = 3
  /\ segments[2].end = segments[3].start

\* ---- useScreenRecorder: reset, load, late callbacks ----

\* No session holds anything live: streams, audio graph, draw loop, canvas,
\* video element.
AllReleased == \A s \in Sessions : Released(s)

\* No stream is acquired and no encoder started in the step.
NoCapture ==
  /\ DOMAIN sess' = DOMAIN sess
  /\ \A s \in Sessions :
       /\ sess'[s].stream = "live" => sess[s].stream = "live"
       /\ sess'[s].mic = "live" => sess[s].mic = "live"
       /\ sess'[s].rec = "recording" => sess[s].rec = "recording"

\* C32: loadRecording(blob) performs no capture, releases the live resources
\* of any session and leaves status recorded, the given blob, an object URL
\* for it and no error; resetRecording releases them too and leaves status
\* idle, no blob, no URL, no error and the guard cleared.
C32_LoadAndReset ==
  /\ [][LoadRecording =>
          /\ NoCapture
          /\ AllReleased'
          /\ status' = "recorded"
          /\ currentBlob'.kind = "library"
          /\ mediaBlobUrl' = "url"
          /\ error' = "null"]_vars
  /\ [][ResetRecording =>
          /\ NoCapture
          /\ AllReleased'
          /\ status' = "idle"
          /\ currentBlob' = NullBlob
          /\ mediaBlobUrl' = "null"
          /\ error' = "null"
          /\ ~guard']_vars

\* The state resetRecording leaves, with no startRecording call in flight:
\* every session that exists was started before the reset.
AfterReset ==
  /\ status = "idle"
  /\ currentBlob = NullBlob
  /\ mediaBlobUrl = "null"
  /\ error = "null"
  /\ ~guard
  /\ \A s \in Sessions : sess[s].pc \notin Pending

\* C34: after resetRecording, status stays idle, currentBlob null and error
\* null until the next startRecording or loadRecording: no late stop, error
\* or data event of an encoder that was active at the reset publishes a
\* recording or sets an error.
C34_ResetIsFinal ==
  [][(AfterReset /\ ~LoadRecording /\ ~(\E o \in OptionSets : StartRecording(o)))
       => /\ status' = "idle"
          /\ currentBlob' = NullBlob
          /\ error' = "null"]_vars

\* C35: every chunk of an assembled recording was delivered by one session's
\* own encoder: the shared buffer is emptied when a session's encoder is set
\* up, and the buffer of the current session holds no chunk delivered by the
\* encoder of an earlier session.
C35_ChunksOfOwnSession ==
  /\ [][mediaRecorderRef' # mediaRecorderRef => chunksRef' = <<>>]_vars
  /\ [](\A i \in DOMAIN chunksRef : chunksRef[i].from = mediaRecorderRef)
  /\ [](currentBlob.kind = "recording" =>
          \A i \in DOMAIN currentBlob.chunks, j \in DOMAIN currentBlob.chunks :
            currentBlob.chunks[i].from = currentBlob.chunks[j].from)

\* No startRecording call is at an await, no encoder is recording and no
\* stop event is waiting for its handler.
Quiet ==
  \A s \in Sessions :
    /\ sess[s].pc \notin Pending
    /\ sess[s].rec # "recording"
    /\ ~sess[s].stopEvt

OwnTimers == {timer \in rs.timers : timer.for # 0}

SegmentWithId(segs, id) == CHOOSE s \in {segs[i] : i \in DOMAIN segs} : s.id = id

\* The lists hold the same segments under every id but the given one.
SameButFor(before, after, id) ==
  \A other \in Ids(before) \ {id} :
    /\ other \in Ids(after)
    /\ SegmentWithId(after, other) = SegmentWithId(before, other)

Course(r) ==
  [format |-> r.format, sortedSegments |-> r.sortedSegments,
   totalDuration |-> r.totalDuration,
   processedDuration |-> r.processedDuration, k |-> r.k, at |-> At(r),
   videoT |-> r.videoT, paused |-> r.paused, ended |-> r.ended,
   musicPlaying |-> r.musicPlaying, recorded |-> r.recorded,
   outside |-> r.outside, heard |-> r.heard, recorder |-> r.recorder,
   stopEvt |-> r.stopEvt, drawing |-> r.drawing, pc |-> r.pc,
   settled |-> r.settled, error |-> r.error]

\* The call has resolved and the last progress reported is 1.
ResolvedInFull(r) ==
  /\ r.settled = "resolved"
  /\ r.progress.any /\ r.progress.last = 100 * r.totalDuration

StartsLate(r) ==
  \E i \in DOMAIN r.sortedSegments : r.sortedSegments[i].start >= MaxDuration

\* C39: with the media events delivered, every call of processVideo on a
\* non-empty list of segments of positive length resolves or rejects, also
\* when segments start at or reach beyond the end of the source, and also
\* through the frame loop and the encoding of a GIF.
C39_RenderSettles == [](rn.pc # "idle" => <>(rn.settled # "none"))

\* C39 witness: a GIF call of videoProcessor.ts with a segment that starts
\* at or beyond the end of the source has taken its frames and resolved.
C39_Witness ==
  /\ rn.impl = "native" /\ rn.format = "gif" /\ rn.settled = "resolved"
  /\ StartsLate(rn) /\ rn.frames > 0

\* ---------------------------------------------------------------------------
\* processVideo: the frames of a GIF
\* ---------------------------------------------------------------------------

\* The source time between two frames, frameInterval * playbackSpeed.
FrameStep(r) == (FrameInterval * r.playbackSpeed) \div 100

\* The GIF loop of videoProcessor.ts has taken its last frame.
FramesTaken(r) ==
  r.impl = "native" /\ r.format = "gif" /\ r.pc \in {"gifEncode", "done"}

\* The frame taken at a 'seeked' event lies at segment.start + k * 0.1 *
\* playbackSpeed, before segment.end.
OnSchedule ==
  /\ rn.currentTime < Segment(rn).end
  /\ \E n \in 0..MaxGifDuration :
       rn.currentTime = Segment(rn).start + n * FrameStep(rn)

\* The sum of the frame delays is totalDuration / playbackSpeed, give or
\* take one delay for each segment (in hundredths of a tick, times the
\* speed in percent).
DurationKept(r) ==
  Abs(r.shown * r.playbackSpeed - 100 * 100 * r.totalDuration)
    <= Len(r.sortedSegments) * GifDelay(r) * r.playbackSpeed

\* C40: in the GIF loop of videoProcessor.ts every frame of a segment is
\* taken at start + k * 0.1 * speed < end, and when the last frame is taken
\* the delays of all frames add up to the edited duration divided by the
\* playback speed, to within one frame for each segment.
C40_GifSchedule ==
  /\ [][GifSeeked => OnSchedule]_vars
  /\ [](FramesTaken(rn) => DurationKept(rn))
====
